---- MODULE Spec2Model ----
(***************************************************************************)
(* State-machine model of the Canadian MP monitor's cache synchroniser     *)
(* (backend/unified_cache_update.py) and of its party-line analytics       *)
(* engine (backend/cache_party_line_stats.py).                             *)
(*                                                                         *)
(* The module holds several specifications over one variable list:         *)
(*   SpecStats  - calculate_party_position applied to one vote's ballots   *)
(*   SpecLock   - concurrent invocations of the orchestrator: acquire_lock,*)
(*                the run body, release_lock, __del__                      *)
(*   SpecResume - calculate_all_party_line_stats, interrupted and resumed  *)
(*   SpecSync   - successive runs of the synchroniser against the upstream *)
(* Each specification leaves the other groups of variables untouched.      *)
(***************************************************************************)
EXTENDS Integers, Sequences, FiniteSets, TLC

(***************************************************************************)
(* Generic helpers                                                         *)
(***************************************************************************)
None == "None"

Max2(a, b) == IF a >= b THEN a ELSE b

\* Number of elements of the sequence s that satisfy Test (sum(1 for b in s if ...)).
CountIf(s, Test(_)) == Len(SelectSeq(s, Test))

(***************************************************************************)
(* Party-line analytics: pure functions of cache_party_line_stats.py       *)
(***************************************************************************)
\* Bound: number of ballots of the vote handed to calculate_party_position.
MaxBallots == 4

\* Legislator slugs are numbered; LookupSlugs are the ones a roster knows.
LookupSlugs == {1, 2}

\* Ballot choices as the upstream stores them; "" is a missing choice.
Choices == {"Yes", "No", "Paired", "Absent", ""}

PoliticianUrl(slug) == <<"politicians", slug>>

\* url.replace('/politicians/', '').replace('/', '')
SlugOfUrl(url) == url[2]

\* normalize_party_name: substring tests on the lower-cased name, in order.
normalize_party_name(party) ==
    CASE party \in {"Conservative", "CPC", "Conservative Party"} -> "Conservative"
      [] party \in {"Liberal", "Liberal Party"} -> "Liberal"
      [] party \in {"NDP", "New Democratic Party"} -> "NDP"
      [] OTHER -> party

\* extract_party_from_ballot: the ballot's own party field when it has one,
\* else the roster lookup by the slug of politician_url ('' when unknown).
extract_party_from_ballot(ballot, politicians_lookup) ==
    IF ballot.party # "" THEN ballot.party
    ELSE IF SlugOfUrl(ballot.politician_url) \in DOMAIN politicians_lookup
         THEN politicians_lookup[SlugOfUrl(ballot.politician_url)]
         ELSE ""

\* round(num / den * 100, 1), in tenths of a percent (Python rounds half to even).
RoundTenths(num, den) ==
    LET q == (1000 * num) \div den
        r == (1000 * num) % den
    IN  IF 2 * r > den THEN q + 1
        ELSE IF 2 * r < den THEN q
        ELSE IF q % 2 = 0 THEN q ELSE q + 1

\* The ballots of a vote that belong to the party: the party of a ballot is
\* extracted, normalised and compared with the normalised party.
PartyBallots(ballots, party, politicians_lookup) ==
    LET InParty(b) ==
            /\ extract_party_from_ballot(b, politicians_lookup) # ""
            /\ normalize_party_name(extract_party_from_ballot(b, politicians_lookup))
                   = normalize_party_name(party)
    IN  SelectSeq(ballots, InParty)

CountBallot(party_ballots, choices) ==
    LET Is(b) == b.ballot \in choices IN CountIf(party_ballots, Is)

\* The record calculate_party_position returns for a tally.
PositionRecord(total, yes, no, paired, absent) ==
    [total |-> total, yes |-> yes, no |-> no, paired |-> paired, absent |-> absent,
     majority_position |-> IF yes + no > 0 THEN (IF yes > no THEN "Yes" ELSE "No") ELSE None,
     cohesion |-> IF yes + no > 0 THEN RoundTenths(Max2(yes, no), yes + no) ELSE 0]

PositionOfBallots(party_ballots, yes_choices) ==
    IF party_ballots = <<>> THEN PositionRecord(0, 0, 0, 0, 0)
    ELSE PositionRecord(Len(party_ballots),
                        CountBallot(party_ballots, yes_choices),
                        CountBallot(party_ballots, {"No"}),
                        CountBallot(party_ballots, {"Paired"}),
                        CountBallot(party_ballots, {"", "Absent"}))

\* The mutant of calculate_party_position below: Paired ballots counted as Yes.
calculate_party_position_PairedAsYes(ballots, party, politicians_lookup) ==
    PositionOfBallots(PartyBallots(ballots, party, politicians_lookup), {"Yes", "Paired"})

\* calculate_party_position: the party's tally in one vote, its majority
\* position and its cohesion (in tenths of a percent).
calculate_party_position(ballots, party, politicians_lookup) ==
    PositionOfBallots(PartyBallots(ballots, party, politicians_lookup), {"Yes"})

\* The mutant of did_vote_with_party below: every vote is with the party.
did_vote_with_party_Always(mp_vote, party_majority_position) == TRUE

did_vote_with_party(mp_vote, party_majority_position) ==
    IF party_majority_position = None \/ mp_vote = None \/ mp_vote = "" THEN FALSE
    ELSE IF mp_vote \notin {"Yes", "No"} THEN FALSE
    ELSE mp_vote = party_majority_position

\* A Python dict is a function on its keys; EmptyMap is {}.
EmptyMap == [k \in {} |-> 0]

\* d[key] = val
SetKey(d, key, val) == [k \in DOMAIN d \cup {key} |-> IF k = key THEN val ELSE d[k]]

\* s[:n]
FirstN(s, n) == SubSeq(s, 1, IF Len(s) < n THEN Len(s) ELSE n)

RECURSIVE FlattenSeq(_)
FlattenSeq(ss) == IF ss = <<>> THEN <<>> ELSE Head(ss) \o FlattenSeq(Tail(ss))

RECURSIVE SumFn(_, _)
SumFn(f, S) ==
    IF S = {} THEN 0
    ELSE LET x == CHOOSE y \in S : TRUE IN f[x] + SumFn(f, S \ {x})

\* round(num / den) to the nearest integer, ties to even.
RoundHalfEven(num, den) ==
    LET q == num \div den
        r == num % den
    IN  IF 2 * r > den THEN q + 1
        ELSE IF 2 * r < den THEN q
        ELSE IF q % 2 = 0 THEN q ELSE q + 1

\* get_votes_for_mp_analysis and the slice [:10] of the discipline breaks.
MaxVotesPerMp == 5000
MaxBreaksKept == 10

session_priority ==
    <<"45-1", "44-1", "43-2", "43-1", "42-1", "41-2", "41-1", "40-3", "40-2", "40-1",
      "39-2", "39-1">>

\* A vote identifier is the pair (session, number) of the file name
\* "<session>_<number>_"; vote_id.split('_')[0] is its session.
SessionOfVoteId(vote_id) == vote_id[1]

\* The vote detail files are numbered in the order they were written, so the
\* sort by modification time, most recent first, is the descending numbering.
ByMtimeDescending(vote_details) == [i \in 1..Len(vote_details) |-> Len(vote_details) + 1 - i]

\* get_votes_for_mp_analysis: the votes holding a ballot of mp_slug, session by
\* session in priority order and newest file first, at most max_votes of them.
get_votes_for_mp_analysis(mp_slug, vote_details, max_votes) ==
    LET mp_found(i) ==
            \E j \in DOMAIN vote_details[i].ballots :
                vote_details[i].ballots[j].politician_url = PoliticianUrl(mp_slug)
        session_files(session) ==
            LET InSession(i) ==
                    SessionOfVoteId(vote_details[i].vote_id) = session /\ mp_found(i)
            IN  SelectSeq(ByMtimeDescending(vote_details), InSession)
        found == FirstN(FlattenSeq([k \in DOMAIN session_priority |->
                                        session_files(session_priority[k])]), max_votes)
    IN  [k \in DOMAIN found |-> vote_details[found[k]]]

\* The ballot choice of mp_slug in a vote, None when there is no such ballot.
MpBallotOf(ballots, mp_slug) ==
    LET IsMine(b) == b.politician_url = PoliticianUrl(mp_slug)
    IN  IF SelectSeq(ballots, IsMine) = <<>> THEN None
        ELSE Head(SelectSeq(ballots, IsMine)).ballot

\* The mutant of IsEligible below: any ballot of the legislator counts.
IsEligible_AnyBallot(ballots, mp_ballot, majority_position) ==
    /\ ballots # <<>>
    /\ mp_ballot # None
    /\ majority_position # None

\* A vote counts when it has ballots, the legislator voted Yes or No and
\* the party has a majority position.
IsEligible(ballots, mp_ballot, majority_position) ==
    /\ ballots # <<>>
    /\ mp_ballot \in {"Yes", "No"}
    /\ majority_position # None

SessionBucket(by_session, session) ==
    IF session \in DOMAIN by_session THEN by_session[session]
    ELSE [party_line |-> 0, total |-> 0]

\* The mutant of CountVote below: the per-session buckets are left alone.
CountVote_NoBucket(acc, vote_data, mp_ballot, majority_position, voted_with_party) ==
    [party_line_votes |-> acc.party_line_votes + (IF voted_with_party THEN 1 ELSE 0),
     total_eligible_votes |-> acc.total_eligible_votes + 1,
     party_discipline_breaks |-> acc.party_discipline_breaks,
     party_loyalty_by_session |-> acc.party_loyalty_by_session]

\* The counters of calculate_mp_party_line_stats after an eligible vote.
CountVote(acc, vote_data, mp_ballot, majority_position, voted_with_party) ==
    [party_line_votes |-> acc.party_line_votes + (IF voted_with_party THEN 1 ELSE 0),
     total_eligible_votes |-> acc.total_eligible_votes + 1,
     party_discipline_breaks |->
         IF voted_with_party THEN acc.party_discipline_breaks
         ELSE Append(acc.party_discipline_breaks,
                     [vote_id |-> vote_data.vote_id, mp_vote |-> mp_ballot,
                      party_position |-> majority_position,
                      date |-> vote_data.vote.date]),
     party_loyalty_by_session |->
         SetKey(acc.party_loyalty_by_session, vote_data.vote.session,
                [party_line |->
                     SessionBucket(acc.party_loyalty_by_session, vote_data.vote.session).party_line
                         + (IF voted_with_party THEN 1 ELSE 0),
                 total |->
                     SessionBucket(acc.party_loyalty_by_session, vote_data.vote.session).total
                         + 1])]

\* One iteration of the loop of calculate_mp_party_line_stats.
MpStatsStep(acc, vote_data, mp_ballot, majority_position) ==
    IF IsEligible(vote_data.ballots, mp_ballot, majority_position)
    THEN CountVote(acc, vote_data, mp_ballot, majority_position,
                   did_vote_with_party(mp_ballot, majority_position))
    ELSE acc

\* The loop of calculate_mp_party_line_stats over votes_data.
RECURSIVE MpStatsLoop(_, _, _, _, _)
MpStatsLoop(votes, acc, mp_slug, mp_party, politicians_lookup) ==
    IF votes = <<>> THEN acc
    ELSE MpStatsLoop(Tail(votes),
                     MpStatsStep(acc, Head(votes), MpBallotOf(Head(votes).ballots, mp_slug),
                                 calculate_party_position(Head(votes).ballots, mp_party,
                                                          politicians_lookup).majority_position),
                     mp_slug, mp_party, politicians_lookup)

\* The mutant of PercentageOf below: 100 percent when nothing was counted.
PercentageOf_FullWhenEmpty(party_line, total) ==
    IF total > 0 THEN RoundTenths(party_line, total) ELSE 1000

\* (party_line / total * 100) if total > 0 else 0, rounded to one decimal.
PercentageOf(party_line, total) ==
    IF total > 0 THEN RoundTenths(party_line, total) ELSE 0

\* The record calculate_mp_party_line_stats returns for its final counters;
\* percentages are in tenths of a percent.
MpStatsRecord(mp_slug, mp_party, acc) ==
    [mp_slug |-> mp_slug,
     mp_party |-> mp_party,
     party_line_votes |-> acc.party_line_votes,
     total_eligible_votes |-> acc.total_eligible_votes,
     party_line_percentage |-> PercentageOf(acc.party_line_votes, acc.total_eligible_votes),
     party_discipline_breaks |-> FirstN(acc.party_discipline_breaks, MaxBreaksKept),
     party_loyalty_by_session |->
         [s \in DOMAIN acc.party_loyalty_by_session |->
             [party_line |-> acc.party_loyalty_by_session[s].party_line,
              total |-> acc.party_loyalty_by_session[s].total,
              percentage |-> PercentageOf(acc.party_loyalty_by_session[s].party_line,
                                          acc.party_loyalty_by_session[s].total)]]]

calculate_mp_party_line_stats(mp_slug, mp_party, votes_data, politicians_lookup) ==
    MpStatsRecord(mp_slug, mp_party,
                  MpStatsLoop(votes_data,
                              [party_line_votes |-> 0, total_eligible_votes |-> 0,
                               party_discipline_breaks |-> <<>>,
                               party_loyalty_by_session |-> EmptyMap],
                              mp_slug, mp_party, politicians_lookup))

\* calculate_session_summary_stats: per session, the legislators that have
\* eligible votes in it, in total and party by party.
calculate_session_summary_stats(mp_stats) ==
    LET sessions == UNION {DOMAIN mp_stats[m].party_loyalty_by_session : m \in DOMAIN mp_stats}
        MpsIn(session) ==
            {m \in DOMAIN mp_stats : session \in DOMAIN mp_stats[m].party_loyalty_by_session}
        MpsOf(session, party) == {m \in MpsIn(session) : mp_stats[m].mp_party = party}
        PartyLine(session) == [m \in MpsIn(session) |->
                                  mp_stats[m].party_loyalty_by_session[session].party_line]
        Total(session) == [m \in MpsIn(session) |->
                              mp_stats[m].party_loyalty_by_session[session].total]
        Breakdown(session, party) ==
            LET line == SumFn(PartyLine(session), MpsOf(session, party))
                eligible == SumFn(Total(session), MpsOf(session, party))
            IN  [mp_count |-> Cardinality(MpsOf(session, party)),
                 avg_party_line_percentage |->
                     IF eligible > 0 THEN RoundTenths(line, eligible) ELSE 0,
                 total_party_line_votes |-> line,
                 total_eligible_votes |-> eligible]
    IN  [session \in sessions |->
            LET parties == {mp_stats[m].mp_party : m \in MpsIn(session)}
                line == SumFn(PartyLine(session), MpsIn(session))
                eligible == SumFn(Total(session), MpsIn(session))
            IN  [total_mps |-> Cardinality(MpsIn(session)),
                 total_votes_analyzed |-> eligible,
                 avg_party_line_percentage |->
                     IF eligible > 0 THEN RoundTenths(line, eligible) ELSE 0,
                 party_breakdown |-> [party \in parties |-> Breakdown(session, party)],
                 mp_count_by_party |->
                     [party \in parties |-> Cardinality(MpsOf(session, party))]]]

\* existing_data when there is no result document (None), and the content
\* of PARTY_LINE_CACHE_FILE when the file does not exist.
NoDoc == [none |-> TRUE]

\* The summary of save_incremental_results for the records all_stats.
RefreshedSummary(summary, all_stats) ==
    SetKey(SetKey(summary, "total_mps_analyzed", Cardinality(DOMAIN all_stats)),
           "avg_party_line_percentage",
           IF DOMAIN all_stats = {} THEN 0
           ELSE RoundHalfEven(SumFn([m \in DOMAIN all_stats |->
                                        all_stats[m].party_line_percentage],
                                    DOMAIN all_stats),
                              Cardinality(DOMAIN all_stats)))

\* The document save_incremental_results starts from when there is none.
NewDoc ==
    [summary |-> [total_mps_analyzed |-> 0, total_votes_analyzed |-> 0,
                  avg_party_line_percentage |-> 0],
     mp_stats |-> EmptyMap]

WithMpStats(base, all_stats) ==
    SetKey(SetKey(base, "mp_stats", all_stats), "summary",
           RefreshedSummary(base.summary, all_stats))

\* A mutant of save_incremental_results below: the document is started
\* anew at every call.
save_incremental_results_Anew(mp_slug, mp_stats, existing_data) ==
    WithMpStats(NewDoc, SetKey(NewDoc.mp_stats, mp_slug, mp_stats))

\* save_incremental_results: the document with mp_slug's record added and
\* the summary's count and average refreshed (timestamps are not modelled).
save_incremental_results(mp_slug, mp_stats, existing_data) ==
    IF existing_data = NoDoc
    THEN WithMpStats(NewDoc, SetKey(NewDoc.mp_stats, mp_slug, mp_stats))
    ELSE WithMpStats(existing_data, SetKey(existing_data.mp_stats, mp_slug, mp_stats))

\* sorted(list(all_sessions), reverse=True): session labels of the priority
\* list sort in reverse exactly in the order of that list.
SortedReverse(sessions) ==
    LET Has(session) == session \in sessions
    IN  SelectSeq(session_priority, Has)

\* A mutant of RunStart below: the document is loaded but no legislator
\* counts as already processed.
RunStart_NoneProcessed(file, force_recalculate) ==
    [existing_data |-> IF force_recalculate THEN NoDoc ELSE file,
     already_processed |-> {},
     all_sessions |-> {},
     file |-> file]

\* The mutant of RunStart below: the force flag is ignored and the run
\* resumes from the document on disk.
RunStart_Resume(file, force_recalculate) ==
    [existing_data |-> file,
     already_processed |-> IF file = NoDoc THEN {} ELSE DOMAIN file.mp_stats,
     all_sessions |-> {},
     file |-> file]

\* calculate_all_party_line_stats up to its loop: the locals of a run that
\* finds the document file on disk.
RunStart(file, force_recalculate) ==
    [existing_data |-> IF force_recalculate THEN NoDoc ELSE file,
     already_processed |-> IF force_recalculate \/ file = NoDoc THEN {}
                           ELSE DOMAIN file.mp_stats,
     all_sessions |-> {},
     file |-> file]

\* Whether the loop body skips mp_slug: already processed, or without votes.
SkipsMp(run, mp_slug, vote_details) ==
    \/ mp_slug \in run.already_processed
    \/ get_votes_for_mp_analysis(mp_slug, vote_details, MaxVotesPerMp) = <<>>

\* The locals and the file once a legislator's record stats is persisted.
Persisted(run, saved, stats) ==
    [existing_data |-> saved,
     already_processed |-> run.already_processed,
     all_sessions |-> run.all_sessions \cup DOMAIN stats.party_loyalty_by_session,
     file |-> saved]

PersistStats(run, mp_slug, stats) ==
    Persisted(run, save_incremental_results(mp_slug, stats, run.existing_data), stats)

\* One iteration of the loop over all_mps.
ProcessMp(run, mp_slug, all_mps, vote_details) ==
    IF SkipsMp(run, mp_slug, vote_details) THEN run
    ELSE PersistStats(run, mp_slug,
             calculate_mp_party_line_stats(
                 mp_slug, all_mps[mp_slug],
                 get_votes_for_mp_analysis(mp_slug, vote_details, MaxVotesPerMp), all_mps))

\* The document after the final summary update.
FinalDoc(existing_data, all_sessions) ==
    SetKey(SetKey(existing_data, "summary",
                  SetKey(existing_data.summary, "sessions_analyzed",
                         SortedReverse(all_sessions))),
           "session_summary", calculate_session_summary_stats(existing_data.mp_stats))

Finalized(run, final) ==
    [existing_data |-> final, already_processed |-> run.already_processed,
     all_sessions |-> run.all_sessions, file |-> final]

\* The final summary update after the loop.
FinalSummary(run) ==
    IF run.existing_data = NoDoc THEN run
    ELSE Finalized(run, FinalDoc(run.existing_data, run.all_sessions))

\* calculate_all_party_line_stats run from the idx-th legislator to its end.
RECURSIVE RunToEnd(_, _, _, _)
RunToEnd(run, idx, all_mps, vote_details) ==
    IF idx \notin DOMAIN all_mps THEN FinalSummary(run)
    ELSE RunToEnd(ProcessMp(run, idx, all_mps, vote_details), idx + 1, all_mps, vote_details)

\* calculate_all_party_line_stats as one call: the result it returns (NoDoc
\* for None) and the content of the result file afterwards.
calculate_all_party_line_stats(file, force_recalculate, all_mps, vote_details) ==
    IF all_mps = <<>> THEN [result |-> NoDoc, file |-> file]
    ELSE LET run == RunToEnd(RunStart(file, force_recalculate), 1, all_mps, vote_details)
         IN  [result |-> run.existing_data, file |-> run.file]

(***************************************************************************)
(* Cache synchroniser: pure functions of unified_cache_update.py           *)
(***************************************************************************)
\* Source constants: cache durations in seconds, request limits, caps.
CacheDuration == 172800
PARTY_LINE_CACHE_DURATION == 7200
CheckLimit == 50
VotesCacheLimit == 100
DetailsLimit == 200
MaxCachedVotes == 200
MaxMpVotes == 5000
DateWindow == 10
batch_size == 5

\* A cache file that does not exist; an existing one is an envelope
\* [exists, data, expires].
NoFile == [exists |-> FALSE]

\* save_cache_data: the envelope written at time now.
save_cache_data(data, now) == [exists |-> TRUE, data |-> data, expires |-> now + CacheDuration]

\* The mutant of is_cache_expired below: nothing is ever fresh.
is_cache_expired_Always(file, now, force_full) == TRUE

\* is_cache_expired for a JSON envelope.
is_cache_expired(file, now, force_full) ==
    IF force_full THEN TRUE
    ELSE IF ~file.exists THEN TRUE
    ELSE now > file.expires

\* CACHE_DURATIONS, for three of its types; DefaultDuration is the default of
\* CACHE_DURATIONS.get(cache_type, 3600) for a type outside the table.
CACHE_DURATIONS == [politicians |-> 172800, mp_votes |-> 172800, historical_mps |-> 604800]

DefaultDuration == 3600

DurationOf(cache_type) ==
    IF cache_type \in DOMAIN CACHE_DURATIONS THEN CACHE_DURATIONS[cache_type]
    ELSE DefaultDuration

\* What a cache file can hold: nothing (no file), a well-formed envelope,
\* text that json.load rejects, a JSON value that is not an object, or an
\* object whose 'expires' is a string that is neither an ISO timestamp nor a
\* number. A file is [kind, expires, mtime]; expires is 0 unless it is an
\* envelope.
FileKinds == {"missing", "envelope", "not_json", "not_object", "bad_expires"}

MissingFile == [kind |-> "missing", expires |-> 0, mtime |-> 0]

\* save_cache_data with its cache_type: the file after json.dump at time now.
SavedFile(cache_type, now) ==
    [kind |-> "envelope", expires |-> now + DurationOf(cache_type), mtime |-> now]

\* The envelope [exists, data, expires] of a file that parses.
EnvelopeOf(file) ==
    IF file.kind = "missing" THEN NoFile
    ELSE [exists |-> TRUE, data |-> <<>>, expires |-> file.expires]

\* is_cache_expired on any file content: "expired" for True, "fresh" for
\* False, "raised" when an exception leaves the method. json.load failing
\* is caught and answered from the file's modification time; data.get on a
\* value that is not a dict (AttributeError) and float() on an unparseable
\* 'expires' (ValueError raised inside the handler of the first ValueError)
\* are caught by nothing.
CheckOutcome(file, cache_type, now, force_full) ==
    IF force_full THEN "expired"
    ELSE CASE file.kind = "missing" -> "expired"
           [] file.kind = "envelope" ->
                  IF is_cache_expired(EnvelopeOf(file), now, force_full)
                  THEN "expired" ELSE "fresh"
           [] file.kind = "not_json" ->
                  IF now - file.mtime > DurationOf(cache_type) THEN "expired" ELSE "fresh"
           [] OTHER -> "raised"

\* app.py load_persistent_cache on an envelope or a missing file: the entry
\* of the serving layer's in-memory cache.
LoadedEntry(file) ==
    IF file.kind = "envelope" THEN [has_data |-> TRUE, expires |-> file.expires]
    ELSE [has_data |-> FALSE, expires |-> 0]

\* app.py is_cache_valid
is_cache_valid(entry, now) == entry.has_data /\ now < entry.expires

\* url.replace('/votes/', '').replace('/', '_').rstrip('_'): the vote URL
\* /votes/<session>/<number>/ becomes the identifier <session>_<number>.
VoteIdOfUrl(url) == <<url[2], url[3]>>

SeqToSet(s) == {s[i] : i \in DOMAIN s}

\* The identifiers of a list of vote summaries.
VoteIds(votes) == {VoteIdOfUrl(votes[i].url) : i \in DOMAIN votes}

\* api_vote_data: identifier -> vote summary (a later duplicate replaces).
ApiVoteData(api_votes) ==
    [id \in VoteIds(api_votes) |->
        LET Is(v) == VoteIdOfUrl(v.url) = id
            same == SelectSeq(api_votes, Is)
        IN  same[Len(same)]]

MaxOfSet(S) == CHOOSE x \in S : \A y \in S : y <= x

\* check_for_new_votes, lines 432-455: the identifier diff against the recent
\* votes cache and, when it is empty, the date comparison against the most
\* recent of the first DateWindow cached votes.
NewVoteIdsOfCheck(api_votes, votes_cache) ==
    LET api_vote_data == ApiVoteData(api_votes)
        cached_votes == IF votes_cache.exists THEN votes_cache.data ELSE <<>>
        by_id == DOMAIN api_vote_data \ VoteIds(cached_votes)
        recent == FirstN(cached_votes, DateWindow)
        cached_dates == {recent[i].date : i \in DOMAIN recent}
        by_date == IF cached_dates = {} THEN {}
                   ELSE {id \in DOMAIN api_vote_data :
                            api_vote_data[id].date > MaxOfSet(cached_dates)}
    IN  IF by_id # {} THEN by_id
        ELSE IF cached_votes # <<>> /\ api_votes # <<>> THEN by_date
        ELSE {}

\* The keys of cached_votes in the vote cache index (get_vote_cache_index).
IndexKeys(index) == IF index.exists THEN DOMAIN index.cached_votes ELSE {}

\* update_vote_details_incremental, lines 783-788: the upstream votes whose
\* identifier is not a key of the index, in upstream order.
NewVotesOfSync(api_votes, cached_vote_ids) ==
    LET IsNew(v) == VoteIdOfUrl(v.url) \notin cached_vote_ids
    IN  SelectSeq(api_votes, IsNew)

\* _add_votes_to_cache: the new votes, in the iteration order of the set,
\* in front of the existing ones, cut to MaxCachedVotes.
add_votes_to_cache(order, api_vote_data, votes_cache, now) ==
    LET existing_votes == IF votes_cache.exists THEN votes_cache.data ELSE <<>>
        new_votes == [k \in DOMAIN order |-> api_vote_data[order[k]]]
    IN  save_cache_data(FirstN(new_votes \o existing_votes, MaxCachedVotes), now)

\* Index entry written for a vote (cached_at is not modelled).
IndexEntry(vote) == [url |-> vote.url, date |-> vote.date]

\* index_data['cached_votes'][vote_id] = {...} on a loaded or fresh index.
WithIndexEntry(index, vote_id, vote) ==
    [exists |-> TRUE,
     cached_votes |-> SetKey(IF index.exists THEN index.cached_votes ELSE EmptyMap,
                             vote_id, IndexEntry(vote))]

\* _cache_single_vote_details, by the outcome of its two upstream requests
\* ("ok", "vote_failed", "ballots_failed"): whether it writes the detail file
\* and what it returns.
WritesDetail(outcome) == outcome # "vote_failed"

CacheSingleSucceeds_Always(outcome) == TRUE

CacheSingleSucceeds(outcome) == outcome # "vote_failed"

\* 'limit': 400 of the one ballots request; no further page is requested.
BallotsLimit == 400

\* The detail file it writes: the vote record and the ballots of the one
\* page requested, none when the ballots request failed.
DetailFile(vote_id, upstream_vote, outcome) ==
    [vote_id |-> vote_id,
     vote |-> upstream_vote.vote,
     ballots |-> IF outcome = "ballots_failed" THEN <<>>
                 ELSE FirstN(upstream_vote.ballots, BallotsLimit)]

\* The directory of detail files, oldest write first, after a file is written.
WriteDetail(vote_details, file) ==
    LET Other(f) == f.vote_id # file.vote_id
    IN  Append(SelectSeq(vote_details, Other), file)

DetailIds(vote_details) == {vote_details[i].vote_id : i \in DOMAIN vote_details}

\* votes.sort(key=date, reverse=True): stable, ties keep their order.
SortByDateDescending(votes) ==
    IF votes = <<>> THEN <<>>
    ELSE LET top == MaxOfSet({votes[i].date : i \in DOMAIN votes})
         IN  FlattenSeq([k \in 1..(top + 1) |->
                 LET OnDate(v) == v.date = top + 1 - k IN SelectSeq(votes, OnDate)])

\* The mutant of MpVoteEntry below: no ballot is ever found.
MpVoteEntry_Missing(mp_slug, detail) == <<>>

\* The legislator's entry for a vote detail file: the vote record plus
\* mp_ballot; <<>> when the legislator has no ballot in it or an empty one.
MpVoteEntry(mp_slug, detail) ==
    LET IsMine(b) == b.politician_url = PoliticianUrl(mp_slug)
        mine == SelectSeq(detail.ballots, IsMine)
    IN  IF mine = <<>> THEN <<>>
        ELSE <<[url |-> detail.vote.url, date |-> detail.vote.date,
                session |-> detail.vote.session, mp_ballot |-> Head(mine).ballot]>>

\* _build_mp_votes_from_cache: full rebuild of a legislator's voting record.
build_mp_votes_from_cache(mp_slug, vote_details) ==
    LET entries == FlattenSeq([i \in DOMAIN vote_details |->
                       LET e == MpVoteEntry(mp_slug, vote_details[i])
                       IN  IF e # <<>> /\ Head(e).mp_ballot # "" THEN e ELSE <<>>])
    IN  FirstN(SortByDateDescending(entries), MaxMpVotes)

\* A mutant of update_mp_record below: every new vote is entered, whether
\* or not a detail file exists for it.
update_mp_record_Unpersisted(mp_slug, record, order, vote_details) ==
    [exists |-> TRUE,
     data |-> FirstN([k \in DOMAIN order |->
                         [url |-> <<"votes", order[k][1], order[k][2]>>, date |-> 0,
                          session |-> order[k][1], mp_ballot |-> "Yes"]] \o record.data,
                     MaxMpVotes),
     expires |-> record.expires]

\* The mutant of update_mp_record below: existing records are left alone.
update_mp_record_Untouched(mp_slug, record, order, vote_details) == record

\* _update_mp_records_with_new_votes for one existing record: the new votes
\* that have a detail file and a ballot of the legislator, in the iteration
\* order of the set, in front of the existing entries.
update_mp_record(mp_slug, record, order, vote_details) ==
    LET DetailOf(id) ==
            LET Is(f) == f.vote_id = id IN SelectSeq(vote_details, Is)
        new_mp_votes == FlattenSeq([k \in DOMAIN order |->
                            IF DetailOf(order[k]) = <<>> THEN <<>>
                            ELSE MpVoteEntry(mp_slug, Head(DetailOf(order[k])))])
    IN  IF new_mp_votes = <<>> THEN record
        ELSE [exists |-> TRUE,
              data |-> FirstN(new_mp_votes \o record.data, MaxMpVotes),
              expires |-> record.expires]

\* _build_bills_with_votes_index: the bills referenced by the detail files
\* of the indexed votes.
build_bills_with_votes_index(index, vote_details) ==
    {vote_details[i].vote.bill_url : i \in
        {j \in DOMAIN vote_details : /\ vote_details[j].vote_id \in IndexKeys(index)
                                     /\ vote_details[j].vote.bill_url # ""}}

\* BILLS_WITH_VOTES_INDEX_FILE as _build_bills_with_votes_index writes it:
\* the bills and the time of the write ('updated').
BillsIndexFile(bills_with_votes, now) ==
    [exists |-> TRUE, bills_with_votes |-> bills_with_votes, updated |-> now]

\* The mutant of bills_affected below: no new vote ever affects the bills.
bills_affected_Never(new_vote_ids, api_vote_data) == FALSE

\* bills_affected of _update_bills_cache_for_new_votes: some new vote
\* carries a bill_url.
bills_affected(new_vote_ids, api_vote_data) ==
    \E k \in DOMAIN new_vote_ids : api_vote_data[new_vote_ids[k]].bill_url # ""

(***************************************************************************)
(* Variables                                                               *)
(***************************************************************************)
VARIABLES
    \* SpecStats: the arguments of calculate_party_position and its result
    st_ballots, st_party, st_lookup, st_result,
    \* SpecLock: the lock record on disk and, per invocation of the orchestrator,
    \* its position, its arguments and locals, and what it has written
    lockFile,     \* content of LOCK_FILE, or NoLock when the file does not exist
    lk_pc,        \* each invocation's position in main() / __init__ / acquire_lock
    lk_mode,      \* args.mode
    lk_lock_pid,  \* acquire_lock's local lock_pid (0 before it is read)
    lk_phase,     \* number of phases of the selected mode already executed
    lk_acquire,   \* how acquire_lock ended: "none", "acquired", "contended", "crashed"
    lk_stale,     \* acquire_lock found the record's process dead (os.kill raised)
    lk_holds,     \* acquire_lock completed and release_lock not yet called
    lk_exit,      \* the process exit status, NotExited while it runs
    lk_written,   \* the cache artifacts the invocation has written
    \* SpecResume: the analytics engine's inputs, its result file and the locals
    \* of the run of calculate_all_party_line_stats in progress
    rs_all_mps,            \* get_mp_list_from_cache(): slug -> party, in roster order
    rs_vote_details,       \* the vote detail files, in the order they were written
    rs_file,               \* content of PARTY_LINE_CACHE_FILE, NoDoc when absent
    rs_pc,                 \* "idle" between runs, "loop" inside the loop over all_mps
    rs_idx,                \* position of the loop in all_mps
    rs_existing_data,      \* local existing_data
    rs_already_processed,  \* local already_processed
    rs_all_sessions,       \* local all_sessions
    rs_history,            \* the runs so far: their force flag and how they ended
    rs_mp_votes,           \* the voting records rebuilt from the corpus, by legislator
    \* SpecSync / SpecCold: the upstream, the clock, the cache artifacts and the
    \* locals of the run of the synchroniser in progress
    sy_universe,       \* every upstream vote (record and ballots), in publication order
    sy_published,      \* how many of them the upstream has published
    sy_now,            \* time.time()
    sy_ticks,          \* number of times the clock has advanced
    sy_politicians,    \* POLITICIANS_CACHE_FILE
    sy_votes_cache,    \* VOTES_CACHE_FILE
    sy_vote_index,     \* VOTE_CACHE_INDEX_FILE
    sy_vote_details,   \* the files of VOTE_DETAILS_CACHE_DIR, oldest write first
    sy_bills_cache,    \* BILLS_CACHE_FILE
    sy_bills_index,    \* BILLS_WITH_VOTES_INDEX_FILE
    sy_mp_votes,       \* the files of MP_VOTES_CACHE_DIR, by legislator
    sy_party_line,     \* PARTY_LINE_CACHE_FILE
    sy_party_line_expires,  \* its summary.cache_expires
    sy_pc,             \* position of the run: "idle" or the phase about to execute
    sy_mode,           \* self.mode
    sy_force_full,     \* self.force_full
    sy_api_votes,      \* the vote list returned by the detector's request
    sy_new_vote_ids,   \* check_for_new_votes: new_vote_ids, as the set iterates
    sy_queue,          \* votes whose details are still to be fetched
    sy_batch,          \* update_vote_details_incremental: futures not yet completed
    sy_index_data,     \* update_vote_details_incremental: index_data
    sy_successful,     \* successful_caches / successful_updates
    sy_fetches,        \* calls of _cache_single_vote_details in this run
    sy_failed,         \* votes for which a request failed in this run
    sy_faults,         \* failed upstream requests so far
    sy_run_faults,     \* failed upstream requests in this run
    sy_runs,           \* completed runs
    sy_prev,           \* "clean_auto" when the last event was a fault-free auto run
    sy_idem,           \* this run repeats a fault-free auto run, all caches fresh
    sy_snapshot,       \* the artifacts when this run started
    sy_phase_failed,   \* the operations this run has logged as FAILED
    sy_api_calls,      \* self.stats['api_calls'] of this run
    \* SpecMpStats: the arguments of calculate_mp_party_line_stats, the locals
    \* of its loop, its result and the document the result is saved into
    ms_mp_slug,        \* mp_slug
    ms_mp_party,       \* mp_party
    ms_votes_data,     \* votes_data, in iteration order
    ms_lookup,         \* politicians_lookup
    ms_idx,            \* position of the loop in votes_data
    ms_acc,            \* the four counters of the loop
    ms_result,         \* the record returned, None before the return
    ms_doc,            \* existing_data of save_incremental_results
    \* SpecFresh: one cache file, the clock, and one phase of one run
    fr_file,           \* the cache file: [kind, expires, mtime]
    fr_type,           \* its cache_type
    fr_now,            \* time.time()
    fr_events,         \* clock steps and outside writes so far
    fr_runs,           \* runs so far
    fr_force_full,     \* self.force_full of the last run
    fr_expired,        \* what is_cache_expired answered in the last run
    fr_valid,          \* what is_cache_valid answered at the same instant
    fr_api_calls,      \* self.stats['api_calls'] of the last run
    fr_exit,           \* exit status of the last run
    fr_save,           \* the last run's write of the file: "none", "written", "failed"
    fr_errors,         \* self.stats['errors'] of the last run
    fr_summary,        \* whether the last run wrote the statistics file
    \* SpecFetchers: one run of a resumable fetcher of vote details
    hf_script,         \* "historical" or "missing"
    hf_sessions,       \* the sessions main still has to process, in priority order
    hf_pc,             \* position in main and in the per-vote loop
    hf_shutdown,       \* shutdown_requested
    hf_remaining,      \* remaining_votes of the current session
    hf_i,              \* position of the loop in remaining_votes
    hf_completed,      \* progress[...]['completed'] in memory, per session
    hf_file,           \* PROGRESS_FILE: the completed lists on disk
    hf_written,        \* ghost: the votes whose detail file this run wrote
    hf_not_found,      \* not_found of cache_session_votes
    \* SpecPool: one thread pool of the orchestrator and its run statistics
    pl_kind,           \* "vote_details" or "historical_mps"
    pl_todo,           \* tasks not yet handed to an executor
    pl_tasks,          \* the tasks of the current executor
    pl_api_calls,      \* self.stats['api_calls']
    pl_errors,         \* len(self.stats['errors'])
    pl_invocations,    \* ghost: calls of api_request
    pl_failures,       \* ghost: failed requests
    \* SpecKeys: the vote detail directory and its writers
    id_files,          \* file names (without .json) in cache/vote_details
    id_found           \* what the last lookup of the serving layer found

statsVars == <<st_ballots, st_party, st_lookup, st_result>>

lockVars == <<lockFile, lk_pc, lk_mode, lk_lock_pid, lk_phase, lk_acquire, lk_stale,
              lk_holds, lk_exit, lk_written>>

resumeVars == <<rs_all_mps, rs_vote_details, rs_file, rs_pc, rs_idx, rs_existing_data,
                rs_already_processed, rs_all_sessions, rs_history, rs_mp_votes>>

syncArtifacts == <<sy_politicians, sy_votes_cache, sy_vote_index, sy_vote_details,
                   sy_bills_cache, sy_bills_index, sy_mp_votes, sy_party_line,
                   sy_party_line_expires>>

syncLocals == <<sy_pc, sy_mode, sy_force_full, sy_api_votes, sy_new_vote_ids, sy_queue,
                sy_batch, sy_index_data, sy_successful, sy_fetches, sy_failed, sy_faults,
                sy_run_faults, sy_runs, sy_prev, sy_idem, sy_snapshot, sy_phase_failed,
                sy_api_calls>>

syncVars == <<sy_universe, sy_published, sy_now, sy_ticks, syncArtifacts, syncLocals>>

mpVars == <<ms_mp_slug, ms_mp_party, ms_votes_data, ms_lookup, ms_idx, ms_acc, ms_result,
            ms_doc>>

freshVars == <<fr_file, fr_type, fr_now, fr_events, fr_runs, fr_force_full, fr_expired,
               fr_valid, fr_api_calls, fr_exit, fr_save, fr_errors, fr_summary>>

fetchVars == <<hf_script, hf_sessions, hf_pc, hf_shutdown, hf_remaining, hf_i,
               hf_completed, hf_file, hf_written, hf_not_found>>

poolVars == <<pl_kind, pl_todo, pl_tasks, pl_api_calls, pl_errors, pl_invocations,
              pl_failures>>

keyVars == <<id_files, id_found>>

toolVars == <<fetchVars, poolVars, keyVars>>

vars == <<statsVars, lockVars, resumeVars, syncVars, mpVars, freshVars, toolVars>>

\* st_result before calculate_party_position has returned.
NoResult == [computed |-> FALSE]

\* lockFile when LOCK_FILE does not exist.
NoLock == [pid |-> 0, mode |-> "none"]

\* The state of a group of variables in the specifications that do not use it.
StatsIdle ==
    /\ st_ballots = <<>> /\ st_party = "" /\ st_lookup = <<>> /\ st_result = NoResult

\* What the actions of a specification leave alone: the other groups.
StatsFrame == UNCHANGED <<lockVars, resumeVars, syncVars, mpVars, freshVars, toolVars>>

LockFrame == UNCHANGED <<statsVars, resumeVars, syncVars, mpVars, freshVars, toolVars>>

ResumeFrame == UNCHANGED <<statsVars, lockVars, syncVars, mpVars, freshVars, toolVars>>

SyncFrame == UNCHANGED <<statsVars, lockVars, resumeVars, mpVars, freshVars, toolVars>>

MpFrame == UNCHANGED <<statsVars, lockVars, resumeVars, syncVars, freshVars, toolVars>>

FreshFrame == UNCHANGED <<statsVars, lockVars, resumeVars, syncVars, mpVars, toolVars>>

LockIdle ==
    /\ lockFile = NoLock
    /\ lk_pc = <<>> /\ lk_mode = <<>> /\ lk_lock_pid = <<>> /\ lk_phase = <<>>
    /\ lk_acquire = <<>> /\ lk_stale = <<>> /\ lk_holds = <<>> /\ lk_exit = <<>>
    /\ lk_written = <<>>

SyncIdle ==
    /\ sy_universe = <<>> /\ sy_published = 0 /\ sy_now = 0 /\ sy_ticks = 0
    /\ sy_politicians = NoFile /\ sy_votes_cache = NoFile /\ sy_vote_index = NoFile
    /\ sy_vote_details = <<>> /\ sy_bills_cache = NoFile /\ sy_bills_index = NoFile
    /\ sy_mp_votes = <<>> /\ sy_party_line = NoDoc /\ sy_party_line_expires = 0
    /\ sy_pc = "idle" /\ sy_mode = "auto" /\ sy_force_full = FALSE
    /\ sy_api_votes = <<>> /\ sy_new_vote_ids = <<>> /\ sy_queue = <<>> /\ sy_batch = {}
    /\ sy_index_data = NoFile /\ sy_successful = 0 /\ sy_fetches = 0 /\ sy_failed = {}
    /\ sy_faults = 0 /\ sy_run_faults = 0 /\ sy_runs = 0 /\ sy_prev = "none"
    /\ sy_idem = FALSE /\ sy_snapshot = <<>> /\ sy_phase_failed = {} /\ sy_api_calls = 0

ResumeIdle ==
    /\ rs_all_mps = <<>> /\ rs_vote_details = <<>> /\ rs_file = NoDoc
    /\ rs_pc = "idle" /\ rs_idx = 0 /\ rs_existing_data = NoDoc
    /\ rs_already_processed = {} /\ rs_all_sessions = {} /\ rs_history = <<>>
    /\ rs_mp_votes = <<>>

MpIdle ==
    /\ ms_mp_slug = 0 /\ ms_mp_party = "" /\ ms_votes_data = <<>> /\ ms_lookup = <<>>
    /\ ms_idx = 0 /\ ms_acc = <<>> /\ ms_result = NoResult /\ ms_doc = NoDoc

FetchIdle ==
    /\ hf_script = "" /\ hf_sessions = <<>> /\ hf_pc = "idle" /\ hf_shutdown = FALSE
    /\ hf_remaining = <<>> /\ hf_i = 0 /\ hf_completed = <<>> /\ hf_file = <<>>
    /\ hf_written = {} /\ hf_not_found = 0

PoolIdle ==
    /\ pl_kind = "" /\ pl_todo = 0 /\ pl_tasks = <<>> /\ pl_api_calls = 0
    /\ pl_errors = 0 /\ pl_invocations = 0 /\ pl_failures = 0

KeyIdle == id_files = {} /\ id_found = {}

ToolsIdle == FetchIdle /\ PoolIdle /\ KeyIdle

FreshIdle ==
    /\ fr_file = MissingFile /\ fr_type = "" /\ fr_now = 0 /\ fr_events = 0
    /\ fr_runs = 0 /\ fr_force_full = FALSE /\ fr_expired = "" /\ fr_valid = FALSE
    /\ fr_api_calls = 0 /\ fr_exit = 0
    /\ fr_save = "none" /\ fr_errors = <<>> /\ fr_summary = FALSE

(***************************************************************************)
(* SpecStats: calculate_party_position on every vote of up to MaxBallots   *)
(* ballots                                                                 *)
(***************************************************************************)
\* The roster lookup (slug -> party short name) used for ballots that carry
\* no party of their own; legislators beyond LookupSlugs are in no roster.
StatsLookups ==
    {[s \in LookupSlugs |-> IF s = 1 THEN "Liberal" ELSE p] : p \in {"Liberal", "Conservative"}}

\* The i-th ballot of a vote is legislator i's.
StatsBallots(n) ==
    {[i \in 1..n |-> [politician_url |-> PoliticianUrl(i),
                      party |-> f[i].party, ballot |-> f[i].ballot]] :
        f \in [1..n -> [party : {"", "CPC"}, ballot : Choices]]}

StatsInit ==
    /\ ToolsIdle
    /\ LockIdle
    /\ ResumeIdle
    /\ SyncIdle
    /\ MpIdle
    /\ FreshIdle
    /\ \E n \in 0..MaxBallots : st_ballots \in StatsBallots(n)
    /\ st_party \in {"Liberal", "Conservative"}
    /\ st_lookup \in StatsLookups
    /\ st_result = NoResult

ComputePartyPosition ==
    /\ st_result = NoResult
    /\ st_result' = calculate_party_position(st_ballots, st_party, st_lookup)
    /\ UNCHANGED <<st_ballots, st_party, st_lookup>>
    /\ StatsFrame

StatsNext == ComputePartyPosition

SpecStats == StatsInit /\ [][StatsNext]_vars

\* The ballots of st_ballots that belong to st_party, and the party's tally,
\* counted ballot by ballot.
StatsPartyIdx ==
    {i \in DOMAIN st_ballots :
        LET bp == extract_party_from_ballot(st_ballots[i], st_lookup)
        IN  bp # "" /\ normalize_party_name(bp) = normalize_party_name(st_party)}

StatsYes == Cardinality({i \in StatsPartyIdx : st_ballots[i].ballot = "Yes"})

StatsNo == Cardinality({i \in StatsPartyIdx : st_ballots[i].ballot = "No"})

StatsMajorityLaw ==
    /\ (StatsYes > StatsNo) => st_result.majority_position = "Yes"
    /\ (StatsNo >= StatsYes /\ StatsYes + StatsNo > 0) => st_result.majority_position = "No"
    /\ (StatsYes + StatsNo = 0) => st_result.majority_position = None

\* C10 (as stated): majority_position is 'Yes' when Yes > No, 'No' when
\* No >= Yes with Yes+No > 0, None when Yes+No = 0, whatever the Paired and
\* Absent ballots are, and cohesion equals max(Yes,No)/(Yes+No)*100 exactly
\* (cohesion is held in tenths of a percent).
C10_ExactCohesion ==
    st_result # NoResult =>
        /\ StatsMajorityLaw
        /\ (StatsYes + StatsNo > 0) =>
              st_result.cohesion * (StatsYes + StatsNo) = 1000 * Max2(StatsYes, StatsNo)

\* C10 (amended): the same majority law, and cohesion is
\* max(Yes,No)/(Yes+No)*100 rounded to one decimal place: the returned value
\* is a whole number of tenths at most half a tenth away from the quotient,
\* and 0 when Yes+No = 0.
C10_MajorityCohesionLaw ==
    st_result # NoResult =>
        /\ StatsMajorityLaw
        /\ (StatsYes + StatsNo > 0) =>
              LET d == st_result.cohesion * (StatsYes + StatsNo)
                         - 1000 * Max2(StatsYes, StatsNo)
              IN  2 * d <= StatsYes + StatsNo /\ -(2 * d) <= StatsYes + StatsNo
        /\ (StatsYes + StatsNo = 0) => st_result.cohesion = 0

\* C10 witness: a party with Yes=2, No=1 and a Paired ballot outside the
\* tally of two: majority 'Yes', cohesion 66.7.
C10_Witness ==
    /\ st_result # NoResult
    /\ StatsYes = 2 /\ StatsNo = 1
    /\ \E i \in DOMAIN st_ballots : st_ballots[i].ballot \in {"Paired", "Absent", ""}
    /\ st_result.majority_position = "Yes"
    /\ st_result.cohesion = 667

(***************************************************************************)
(* Process lock and orchestrator main(): unified_cache_update.py           *)
(***************************************************************************)
\* Bound: number of orchestrator invocations (each is a process, pid = index).
NProcs == 2

Procs == 1..NProcs

\* The pid of a process that died (SIGKILL, power loss) before it could
\* release the lock it held: the record it left is stale.
DeadPid == NProcs + 1

NotExited == -1

\* The cache artifacts of the lock-contention claim.
ArtifactNames == {"votes", "vote_details", "vote_cache_index", "mp_votes",
                  "bills_with_votes_index", "party_line_stats"}

\* The modes of the invocations (args.mode): one that runs every phase and a
\* single-phase one; the other modes run sub-sequences of the same phases.
LockModes == {"auto", "party-line"}

\* The phases a mode runs, in the order of run_auto_mode / run_party_line_mode, each with the artifacts (of ArtifactNames) it can rewrite.
\* Phases that touch none of them (politicians, historical MPs, debates, images)
\* are left out.
ModePhases(mode) ==
    CASE mode = "auto" ->
           << [name |-> "check_for_new_votes", writes |-> ArtifactNames],
              [name |-> "update_votes_cache", writes |-> {"votes"}],
              [name |-> "update_vote_details_incremental",
               writes |-> {"vote_details", "vote_cache_index"}],
              [name |-> "update_bills_cache", writes |-> {"bills_with_votes_index"}],
              [name |-> "update_mp_voting_records", writes |-> {"mp_votes"}],
              [name |-> "update_party_line_stats", writes |-> {"party_line_stats"}] >>
      [] OTHER ->
           << [name |-> "update_party_line_stats", writes |-> {"party_line_stats"}] >>

\* os.kill(pid, 0) succeeds: the process exists.
IsAlive(pid) == pid \in Procs /\ lk_pc[pid] \notin {"idle", "exited"}

\* The mutant of release_lock below: the record is left in place.
release_lock_Keep(lock) == lock

\* release_lock: if the file exists, remove it (whoever wrote it).
release_lock(lock) == NoLock

\* The mutant of ProbeTarget below: a live holder is treated like a dead one.
ProbeTarget_Ignore(alive) == "rm_stale"

\* acquire_lock lines 136-145: where the liveness probe leads.
\* sys.exit(1) when the process exists, removal of the stale record when not.
ProbeTarget(alive) == IF alive THEN "sys_exit" ELSE "rm_stale"

LockInit ==
    /\ ToolsIdle
    /\ StatsIdle
    /\ ResumeIdle
    /\ SyncIdle
    /\ MpIdle
    /\ FreshIdle
    /\ lockFile \in {NoLock, [pid |-> DeadPid, mode |-> "auto"]}
    /\ lk_pc = [p \in Procs |-> "idle"]
    /\ lk_mode = [p \in Procs |-> "auto"]
    /\ lk_lock_pid = [p \in Procs |-> 0]
    /\ lk_phase = [p \in Procs |-> 0]
    /\ lk_acquire = [p \in Procs |-> "none"]
    /\ lk_stale = [p \in Procs |-> FALSE]
    /\ lk_holds = [p \in Procs |-> FALSE]
    /\ lk_exit = [p \in Procs |-> NotExited]
    /\ lk_written = [p \in Procs |-> {}]

\* main(): parse the arguments, enter UnifiedCacheUpdater.__init__, which ends
\* with ensure_cache_dirs() and acquire_lock().
Invoke(p) ==
    /\ LockFrame
    /\ lk_pc[p] = "idle"
    /\ \E m \in LockModes : lk_mode' = [lk_mode EXCEPT ![p] = m]
    /\ lk_pc' = [lk_pc EXCEPT ![p] = "exists"]
    /\ UNCHANGED <<lockFile, lk_lock_pid, lk_phase, lk_acquire, lk_stale, lk_holds,
                   lk_exit, lk_written>>

\* acquire_lock line 128: os.path.exists(LOCK_FILE)
CheckExists(p) ==
    /\ LockFrame
    /\ lk_pc[p] = "exists"
    /\ lk_pc' = [lk_pc EXCEPT ![p] = IF lockFile # NoLock THEN "read" ELSE "write"]
    /\ UNCHANGED <<lockFile, lk_mode, lk_lock_pid, lk_phase, lk_acquire, lk_stale,
                   lk_holds, lk_exit, lk_written>>

\* acquire_lock lines 130-135: open and parse the record, take its pid. A file
\* that has vanished since the existence check raises, which the outer handler
\* (line 146) catches.
ReadLock(p) ==
    /\ LockFrame
    /\ lk_pc[p] = "read"
    /\ IF lockFile = NoLock
       THEN /\ lk_pc' = [lk_pc EXCEPT ![p] = "rm_err"]
            /\ UNCHANGED lk_lock_pid
       ELSE /\ lk_lock_pid' = [lk_lock_pid EXCEPT ![p] = lockFile.pid]
            /\ lk_pc' = [lk_pc EXCEPT ![p] = "probe"]
    /\ UNCHANGED <<lockFile, lk_mode, lk_phase, lk_acquire, lk_stale, lk_holds,
                   lk_exit, lk_written>>

\* acquire_lock lines 136-144: os.kill(lock_pid, 0). The process exists: log the
\* contention and sys.exit(1). It does not: the record is stale.
Probe(p) ==
    /\ LockFrame
    /\ lk_pc[p] = "probe"
    /\ LET target == ProbeTarget(IsAlive(lk_lock_pid[p]))
       IN  IF target = "sys_exit"
           THEN /\ lk_pc' = [lk_pc EXCEPT ![p] = "del"]
                /\ lk_acquire' = [lk_acquire EXCEPT ![p] = "contended"]
                /\ lk_exit' = [lk_exit EXCEPT ![p] = 1]
                /\ UNCHANGED lk_stale
           ELSE /\ lk_pc' = [lk_pc EXCEPT ![p] = target]
                /\ lk_stale' = [lk_stale EXCEPT ![p] = TRUE]
                /\ UNCHANGED <<lk_acquire, lk_exit>>
    /\ UNCHANGED <<lockFile, lk_mode, lk_lock_pid, lk_phase, lk_holds, lk_written>>

\* acquire_lock line 145: os.remove(LOCK_FILE) of the stale record. When the
\* file is gone the FileNotFoundError leaves the inner handler and is caught by
\* the outer one (line 146).
RemoveStale(p) ==
    /\ LockFrame
    /\ lk_pc[p] = "rm_stale"
    /\ IF lockFile = NoLock
       THEN /\ lk_pc' = [lk_pc EXCEPT ![p] = "rm_err"]
            /\ UNCHANGED lockFile
       ELSE /\ lockFile' = NoLock
            /\ lk_pc' = [lk_pc EXCEPT ![p] = "write"]
    /\ UNCHANGED <<lk_mode, lk_lock_pid, lk_phase, lk_acquire, lk_stale, lk_holds,
                   lk_exit, lk_written>>

\* acquire_lock lines 146-148: the outer handler's os.remove(LOCK_FILE). When the
\* file is gone the FileNotFoundError is caught by nothing: it leaves __init__
\* and main(), and the process ends with a traceback (status 1).
RemoveAfterError(p) ==
    /\ LockFrame
    /\ lk_pc[p] = "rm_err"
    /\ IF lockFile = NoLock
       THEN /\ lk_pc' = [lk_pc EXCEPT ![p] = "del"]
            /\ lk_acquire' = [lk_acquire EXCEPT ![p] = "crashed"]
            /\ lk_exit' = [lk_exit EXCEPT ![p] = 1]
            /\ UNCHANGED lockFile
       ELSE /\ lockFile' = NoLock
            /\ lk_pc' = [lk_pc EXCEPT ![p] = "write"]
            /\ UNCHANGED <<lk_acquire, lk_exit>>
    /\ UNCHANGED <<lk_mode, lk_lock_pid, lk_phase, lk_stale, lk_holds, lk_written>>

\* acquire_lock lines 150-160: write the new record; __init__ returns and
\* main() enters its try block.
WriteLock(p) ==
    /\ LockFrame
    /\ lk_pc[p] = "write"
    /\ lockFile' = [pid |-> p, mode |-> lk_mode[p]]
    /\ lk_pc' = [lk_pc EXCEPT ![p] = "run"]
    /\ lk_acquire' = [lk_acquire EXCEPT ![p] = "acquired"]
    /\ lk_lock_pid' = [lk_lock_pid EXCEPT ![p] = 0]
    /\ lk_holds' = [lk_holds EXCEPT ![p] = TRUE]
    /\ UNCHANGED <<lk_mode, lk_phase, lk_stale, lk_exit, lk_written>>

\* main() lines 1991-2016: the next phase of the selected mode runs and
\* rewrites its artifacts.
RunPhase(p) ==
    /\ LockFrame
    /\ lk_pc[p] = "run"
    /\ lk_phase[p] < Len(ModePhases(lk_mode[p]))
    /\ lk_phase' = [lk_phase EXCEPT ![p] = @ + 1]
    /\ lk_written' = [lk_written EXCEPT
                        ![p] = @ \cup ModePhases(lk_mode[p])[lk_phase[p] + 1].writes]
    /\ UNCHANGED <<lockFile, lk_pc, lk_mode, lk_lock_pid, lk_acquire, lk_stale,
                   lk_holds, lk_exit>>

\* main() line 2019 and the fall into finally: the mode finished normally
\* (the mode's frame, with its position, is left).
BodyDone(p) ==
    /\ LockFrame
    /\ lk_pc[p] = "run"
    /\ lk_phase[p] = Len(ModePhases(lk_mode[p]))
    /\ lk_pc' = [lk_pc EXCEPT ![p] = "finally"]
    /\ lk_phase' = [lk_phase EXCEPT ![p] = 0]
    /\ lk_exit' = [lk_exit EXCEPT ![p] = 0]
    /\ UNCHANGED <<lockFile, lk_mode, lk_lock_pid, lk_acquire, lk_stale,
                   lk_holds, lk_written>>

\* main() lines 2021-2023: KeyboardInterrupt anywhere in the try block; the
\* handler calls release_lock and the process will end with status 0.
BodyInterrupted(p) ==
    /\ LockFrame
    /\ lk_pc[p] = "run"
    /\ lockFile' = release_lock(lockFile)
    /\ lk_holds' = [lk_holds EXCEPT ![p] = FALSE]
    /\ lk_pc' = [lk_pc EXCEPT ![p] = "finally"]
    /\ lk_phase' = [lk_phase EXCEPT ![p] = 0]
    /\ lk_exit' = [lk_exit EXCEPT ![p] = 0]
    /\ UNCHANGED <<lk_mode, lk_lock_pid, lk_acquire, lk_stale, lk_written>>

\* main() lines 2024-2027: an exception leaves the mode; the handler calls
\* release_lock and re-raises (status 1).
BodyFailed(p) ==
    /\ LockFrame
    /\ lk_pc[p] = "run"
    /\ lk_phase[p] < Len(ModePhases(lk_mode[p]))
    /\ lockFile' = release_lock(lockFile)
    /\ lk_holds' = [lk_holds EXCEPT ![p] = FALSE]
    /\ lk_pc' = [lk_pc EXCEPT ![p] = "finally"]
    /\ lk_phase' = [lk_phase EXCEPT ![p] = 0]
    /\ lk_exit' = [lk_exit EXCEPT ![p] = 1]
    /\ UNCHANGED <<lk_mode, lk_lock_pid, lk_acquire, lk_stale, lk_written>>

\* main() lines 2028-2029: finally: updater.release_lock()
Finally(p) ==
    /\ LockFrame
    /\ lk_pc[p] = "finally"
    /\ lockFile' = release_lock(lockFile)
    /\ lk_holds' = [lk_holds EXCEPT ![p] = FALSE]
    /\ lk_pc' = [lk_pc EXCEPT ![p] = "del"]
    /\ UNCHANGED <<lk_mode, lk_lock_pid, lk_phase, lk_acquire, lk_stale, lk_exit,
                   lk_written>>

\* __del__ (lines 174-176): the updater object is destroyed when main() returns
\* or when an exception or SystemExit unwinds out of __init__; it calls
\* release_lock. Then the process is gone.
Del(p) ==
    /\ LockFrame
    /\ lk_pc[p] = "del"
    /\ lockFile' = release_lock(lockFile)
    /\ lk_holds' = [lk_holds EXCEPT ![p] = FALSE]
    /\ lk_pc' = [lk_pc EXCEPT ![p] = "exited"]
    /\ UNCHANGED <<lk_mode, lk_lock_pid, lk_phase, lk_acquire, lk_stale, lk_exit,
                   lk_written>>

LockNext ==
    \E p \in Procs :
          \/ Invoke(p)
          \/ CheckExists(p)
          \/ ReadLock(p)
          \/ Probe(p)
          \/ RemoveStale(p)
          \/ RemoveAfterError(p)
          \/ WriteLock(p)
          \/ RunPhase(p)
          \/ BodyDone(p)
          \/ BodyInterrupted(p)
          \/ BodyFailed(p)
          \/ Finally(p)
          \/ Del(p)

SpecLock == LockInit /\ [][LockNext]_vars

\* C1: there is never a state in which two live processes have both completed
\* acquire_lock and neither has yet called release_lock.
C1_LockMutualExclusion ==
    Cardinality({p \in Procs : lk_holds[p] /\ IsAlive(p)}) <= 1

\* C2: an invocation whose liveness probe finds the process named by the lock
\* record alive ends with exit status 1, runs no phase and writes no cache
\* artifact.
C2_ContentionFatalNoEffect ==
    [][\A p \in Procs :
          /\ (lk_pc[p] = "probe" /\ lk_pc'[p] # "probe" /\ IsAlive(lk_lock_pid[p]))
                => lk_acquire'[p] = "contended"
          /\ lk_acquire'[p] = "contended"
                => /\ lk_exit'[p] = 1
                   /\ lk_pc'[p] \in {"del", "exited"}
                   /\ lk_phase'[p] = 0
                   /\ lk_written'[p] = {}]_vars

\* C2 witness: an invocation has exited on contention while the holder it ran
\* into has written artifacts.
C2_Witness ==
    \E p, q \in Procs :
        /\ lk_acquire[p] = "contended" /\ lk_pc[p] = "exited" /\ lk_exit[p] = 1
        /\ lk_acquire[q] = "acquired" /\ lk_written[q] # {}

\* C3: an invocation that finds the lock record's process dead never exits
\* inside acquire_lock: it discards the record, writes its own and runs.
C3_StaleLockRecovered ==
    \A p \in Procs :
        lk_stale[p] => /\ lk_acquire[p] \notin {"crashed", "contended"}
                       /\ (lk_pc[p] \in {"del", "exited"} => lk_acquire[p] = "acquired")

\* C4: once a process that acquired the lock has exited (normally, after an
\* exception, after KeyboardInterrupt), no lock record naming it exists.
C4_LockReleasedOnExit ==
    \A p \in Procs :
        (lk_pc[p] = "exited" /\ lk_acquire[p] = "acquired") => lockFile.pid # p

\* C4 witness: one run has exited after an exception (status 1), another after
\* an interrupt that came before its first phase (status 0, nothing written).
C4_Witness ==
    \E p, q \in Procs :
        /\ lk_pc[p] = "exited" /\ lk_acquire[p] = "acquired" /\ lk_exit[p] = 1
        /\ lk_pc[q] = "exited" /\ lk_acquire[q] = "acquired" /\ lk_exit[q] = 0
        /\ lk_written[q] = {}
        /\ lockFile = NoLock

(***************************************************************************)
(* SpecResume: runs of calculate_all_party_line_stats over a fixed roster  *)
(* and a fixed corpus of vote detail files; a run may be interrupted       *)
(* between two legislators and a later run started                         *)
(***************************************************************************)
\* Bounds: legislators of the roster, vote detail files, runs of the engine.
NMps == 2
NVotes == 2
MaxRuns == 2

CorpusSessions == {"45-1", "44-1"}

\* Rosters: legislator 1 is a Liberal, the others Liberal or Conservative.
ResumeRosters ==
    {[m \in 1..NMps |-> IF m = 1 THEN "Liberal" ELSE f[m]] :
        f \in [1..NMps -> {"Liberal", "Conservative"}]}

\* The ballots of one vote: each legislator of the roster has none or one.
BallotsOf(cast) ==
    LET Voted(m) == cast[m] # "none"
        voters == SelectSeq([m \in 1..NMps |-> m], Voted)
    IN  [k \in DOMAIN voters |->
            [politician_url |-> PoliticianUrl(voters[k]), party |-> "", ballot |-> cast[voters[k]]]]

\* Corpora: the i-th file written holds vote number i of some session.
ResumeCorpora ==
    {[i \in 1..NVotes |->
        [vote_id |-> <<f[i].session, i>>,
         vote |-> [url |-> <<"votes", f[i].session, i>>, date |-> i,
                   session |-> f[i].session, number |-> i],
         ballots |-> BallotsOf(f[i].cast)]] :
        f \in [1..NVotes -> [session : CorpusSessions,
                             cast : [1..NMps -> {"none", "Yes", "No", "Paired"}]]]}

ResumeInit ==
    /\ ToolsIdle
    /\ StatsIdle
    /\ LockIdle
    /\ SyncIdle
    /\ MpIdle
    /\ FreshIdle
    /\ rs_all_mps \in ResumeRosters
    /\ rs_vote_details \in ResumeCorpora
    /\ rs_file = NoDoc
    /\ rs_pc = "idle" /\ rs_idx = 0 /\ rs_existing_data = NoDoc
    /\ rs_already_processed = {} /\ rs_all_sessions = {} /\ rs_history = <<>>
    /\ rs_mp_votes = <<>>

\* The locals of the run in progress and the file, as one record.
RsRun ==
    [existing_data |-> rs_existing_data, already_processed |-> rs_already_processed,
     all_sessions |-> rs_all_sessions, file |-> rs_file]

SetRsRun(run) ==
    /\ rs_existing_data' = run.existing_data
    /\ rs_already_processed' = run.already_processed
    /\ rs_all_sessions' = run.all_sessions
    /\ rs_file' = run.file

\* calculate_all_party_line_stats is called and reaches its loop.
StartRun(force_recalculate) ==
    /\ ResumeFrame
    /\ rs_pc = "idle"
    /\ Len(rs_history) < MaxRuns
    /\ SetRsRun(RunStart(rs_file, force_recalculate))
    /\ rs_pc' = "loop"
    /\ rs_idx' = 1
    /\ rs_history' = Append(rs_history, [force |-> force_recalculate, ended |-> "running"])
    /\ UNCHANGED <<rs_mp_votes, rs_all_mps, rs_vote_details>>

\* The loop passes over a legislator already processed or without votes.
SkipMp ==
    /\ ResumeFrame
    /\ rs_pc = "loop"
    /\ rs_idx \in DOMAIN rs_all_mps
    /\ SkipsMp(RsRun, rs_idx, rs_vote_details)
    /\ rs_idx' = rs_idx + 1
    /\ UNCHANGED <<rs_mp_votes, rs_all_mps, rs_vote_details, rs_file, rs_pc, rs_existing_data,
                   rs_already_processed, rs_all_sessions, rs_history>>

\* The loop computes a legislator's record and persists it.
ProcessNextMp ==
    /\ ResumeFrame
    /\ rs_pc = "loop"
    /\ rs_idx \in DOMAIN rs_all_mps
    /\ ~SkipsMp(RsRun, rs_idx, rs_vote_details)
    /\ SetRsRun(ProcessMp(RsRun, rs_idx, rs_all_mps, rs_vote_details))
    /\ rs_idx' = rs_idx + 1
    /\ UNCHANGED <<rs_mp_votes, rs_all_mps, rs_vote_details, rs_pc, rs_history>>

\* The loop is over: final summary update, and the function returns.
FinishRun ==
    /\ ResumeFrame
    /\ rs_pc = "loop"
    /\ rs_idx \notin DOMAIN rs_all_mps
    /\ rs_file' = FinalSummary(RsRun).file
    /\ rs_pc' = "idle"
    /\ rs_idx' = 0
    /\ rs_existing_data' = NoDoc /\ rs_already_processed' = {} /\ rs_all_sessions' = {}
    /\ rs_history' = [rs_history EXCEPT ![Len(rs_history)].ended = "completed"]
    /\ UNCHANGED <<rs_mp_votes, rs_all_mps, rs_vote_details>>

\* The process is interrupted between two legislators (or after the last,
\* before the final summary): its locals are lost, the file stays.
InterruptRun ==
    /\ ResumeFrame
    /\ rs_pc = "loop"
    /\ rs_pc' = "idle"
    /\ rs_idx' = 0
    /\ rs_existing_data' = NoDoc /\ rs_already_processed' = {} /\ rs_all_sessions' = {}
    /\ rs_history' = [rs_history EXCEPT ![Len(rs_history)].ended = "interrupted"]
    /\ UNCHANGED <<rs_mp_votes, rs_all_mps, rs_vote_details, rs_file>>

\* update_mp_voting_records before the first analytics run: every
\* legislator's voting record is rebuilt from the corpus.
RebuildMpVotes ==
    /\ ResumeFrame
    /\ rs_pc = "idle"
    /\ rs_history = <<>>
    /\ rs_mp_votes = <<>>
    /\ rs_mp_votes' = [m \in DOMAIN rs_all_mps |->
                          build_mp_votes_from_cache(m, rs_vote_details)]
    /\ UNCHANGED <<rs_all_mps, rs_vote_details, rs_file, rs_pc, rs_idx, rs_existing_data,
                   rs_already_processed, rs_all_sessions, rs_history>>

ResumeNext ==
    \/ RebuildMpVotes
    \/ \E force_recalculate \in BOOLEAN : StartRun(force_recalculate)
    \/ SkipMp
    \/ ProcessNextMp
    \/ FinishRun
    \/ InterruptRun

SpecResume == ResumeInit /\ [][ResumeNext]_vars

\* The result document of one uninterrupted run over the roster and corpus.
UninterruptedResult == RunToEnd(RunStart(NoDoc, FALSE), 1, rs_all_mps, rs_vote_details).file

\* A first run was interrupted and a second run, without force, completed.
ResumedAndCompleted ==
    /\ rs_pc = "idle"
    /\ Len(rs_history) = 2
    /\ rs_history[1].ended = "interrupted"
    /\ rs_history[2] = [force |-> FALSE, ended |-> "completed"]

\* C9: Resumability of analytics - a run interrupted after any number of
\* persisted legislators and restarted without force leaves the same result
\* document (mp_stats, summary with sessions_analyzed, session_summary) as
\* one uninterrupted run.
C9_ResumedEqualsUninterrupted == ResumedAndCompleted => rs_file = UninterruptedResult

\* The part of the result document that a resumed run does reproduce.
ResumedSameRecords ==
    ResumedAndCompleted =>
        /\ (rs_file = NoDoc) = (UninterruptedResult = NoDoc)
        /\ rs_file # NoDoc =>
            /\ rs_file.mp_stats = UninterruptedResult.mp_stats
            /\ rs_file.session_summary = UninterruptedResult.session_summary
            /\ rs_file.summary.total_mps_analyzed = UninterruptedResult.summary.total_mps_analyzed
            /\ rs_file.summary.avg_party_line_percentage
                   = UninterruptedResult.summary.avg_party_line_percentage

\* The entries of session in a rebuilt voting record, and those among them
\* that the eligibility rule of the analytics counts: the legislator voted
\* Yes or No and the party has a majority position in that vote.
RecordEntries(m, session) ==
    {k \in DOMAIN rs_mp_votes[m] : rs_mp_votes[m][k].session = session}

CorpusVoteOf(url) == CHOOSE i \in DOMAIN rs_vote_details : rs_vote_details[i].vote.url = url

EligibleEntries(m, session) ==
    {k \in RecordEntries(m, session) :
        /\ rs_mp_votes[m][k].mp_ballot \in {"Yes", "No"}
        /\ calculate_party_position(rs_vote_details[CorpusVoteOf(rs_mp_votes[m][k].url)].ballots,
                                    rs_all_mps[m], rs_all_mps).majority_position # None}

\* The total of the session bucket of a legislator's stat record.
BucketTotal(m, session) ==
    IF session \in DOMAIN rs_file.mp_stats[m].party_loyalty_by_session
    THEN rs_file.mp_stats[m].party_loyalty_by_session[session].total
    ELSE 0

\* The legislators that have both a rebuilt voting record and a stat record.
RecordedAndAnalysed ==
    IF rs_file = NoDoc THEN {} ELSE DOMAIN rs_mp_votes \cap DOMAIN rs_file.mp_stats

NSyncVotes == 2
MaxSyncRuns == 2
MaxFaults == 1
MaxTicks == 1
MaxPermuted == 3

\* _expire_cache_file: expires = time.time() - 3600
ExpireBack == 3600

SyncModes == {"auto", "incremental"}

\* The upstream roster: legislator m of NMps, alternately of two parties.
SyncRoster == [m \in 1..NMps |-> IF m % 2 = 1 THEN "Liberal" ELSE "Conservative"]

\* An upstream vote: its record (also its summary in the vote lists) and
\* its ballots.
UpstreamVote(number, date, bill_url, cast) ==
    [vote |-> [url |-> <<"votes", "45-1", number>>, date |-> date, session |-> "45-1",
               number |-> number, bill_url |-> bill_url],
     ballots |-> BallotsOf(cast)]

\* The casts an upstream vote of SpecSync may have: legislator 1 votes Yes,
\* every other legislator votes No or has no ballot.
SyncCasts ==
    {f \in [1..NMps -> {"none", "Yes", "No"}] :
        f[1] = "Yes" /\ \A m \in 2..NMps : f[m] # "Yes"}

\* Universes of n votes: dates never decrease with the vote number.
SyncUniverses(n) ==
    {[i \in 1..n |-> UpstreamVote(i, f[i].date, f[i].bill_url, f[i].cast)] :
        f \in {g \in [1..n -> [date : 1..n, bill_url : {"", "C-1"}, cast : SyncCasts]] :
                  /\ n > 0 => g[1].date = 1 /\ g[1].bill_url = ""
                  /\ \A i \in 1..(n - 1) : g[i + 1].date \in {g[i].date, g[i].date + 1}}}

\* The vote list the upstream serves, most recent first.
UpstreamList ==
    [k \in 1..sy_published |-> sy_universe[sy_published + 1 - k].vote]

\* The upstream vote with identifier vote_id.
UpstreamVoteOf(vote_id) ==
    sy_universe[CHOOSE i \in DOMAIN sy_universe : VoteIdOfUrl(sy_universe[i].vote.url) = vote_id]

\* All orders of the sequences without repetition over S.
IterationOrders(S) ==
    {f \in [1..Cardinality(S) -> S] : \A i, j \in 1..Cardinality(S) : i # j => f[i] # f[j]}

\* Ascending order of vote identifiers by vote number.
RECURSIVE Ascending(_)
Ascending(S) ==
    IF S = {} THEN <<>>
    ELSE LET least == CHOOSE x \in S : \A y \in S : x[2] <= y[2]
         IN  <<least>> \o Ascending(S \ {least})

Reversed(s) == [k \in DOMAIN s |-> s[Len(s) + 1 - k]]

\* The orders in which Python may iterate the set S of identifiers (hash
\* order, different from process to process): every order of a set of at
\* most MaxPermuted elements; of a larger set, the ascending and the
\* descending order.
SetOrders(S) ==
    IF Cardinality(S) <= MaxPermuted THEN IterationOrders(S)
    ELSE {Ascending(S), Reversed(Ascending(S))}

\* Outcomes of an upstream request while the fault bound allows a failure.
ListOutcomes == IF sy_faults < MaxFaults THEN {TRUE, FALSE} ELSE {TRUE}

FetchOutcomes ==
    IF sy_faults < MaxFaults THEN {"ok", "vote_failed", "ballots_failed"} ELSE {"ok"}

CountFault(failed) ==
    /\ sy_faults' = sy_faults + (IF failed THEN 1 ELSE 0)
    /\ sy_run_faults' = sy_run_faults + (IF failed THEN 1 ELSE 0)

\* api_request was called n times: self.stats['api_calls'] += 1 in each.
ApiCalls(n) == sy_api_calls' = sy_api_calls + n

\* The requests of one _cache_single_vote_details: the vote record and,
\* unless that failed, the ballots.
RequestsOfFetch(outcome) == IF outcome = "vote_failed" THEN 1 ELSE 2

\* The six artifacts the synchronisation maintains.
Artifacts ==
    <<sy_votes_cache, sy_vote_index, sy_vote_details, sy_mp_votes, sy_bills_index,
      sy_party_line>>

\* Every cache the phases check is present and not expired.
AllCachesFresh ==
    /\ ~is_cache_expired(sy_politicians, sy_now, FALSE)
    /\ ~is_cache_expired(sy_votes_cache, sy_now, FALSE)
    /\ ~is_cache_expired(sy_bills_cache, sy_now, FALSE)
    /\ \A m \in DOMAIN sy_mp_votes :
           sy_mp_votes[m].exists => ~is_cache_expired(sy_mp_votes[m], sy_now, FALSE)
    /\ sy_party_line # NoDoc => sy_now < sy_party_line_expires

\* get_mp_list_from_cache on the politicians cache: slug -> party.
MpListFromCache == IF sy_politicians.exists THEN sy_politicians.data ELSE <<>>

\* The mutant of AfterDetails below: back to the roster phase.
AfterDetails_Roster == "politicians"

\* The phase after the vote-detail sync (run_auto_mode, run_incremental_mode).
AfterDetails == IF sy_mode = "incremental" THEN "mp_votes" ELSE "bills"

SyncInit ==
    /\ ToolsIdle
    /\ StatsIdle /\ LockIdle /\ ResumeIdle /\ MpIdle /\ FreshIdle
    /\ sy_universe \in SyncUniverses(NSyncVotes)
    /\ sy_published = 0 /\ sy_now = 0 /\ sy_ticks = 0
    /\ sy_politicians = NoFile /\ sy_votes_cache = NoFile /\ sy_vote_index = NoFile
    /\ sy_vote_details = <<>> /\ sy_bills_cache = NoFile /\ sy_bills_index = NoFile
    /\ sy_mp_votes = [m \in 1..NMps |-> NoFile]
    /\ sy_party_line = NoDoc /\ sy_party_line_expires = 0
    /\ sy_pc = "idle" /\ sy_mode = "auto" /\ sy_force_full = FALSE
    /\ sy_api_votes = <<>> /\ sy_new_vote_ids = <<>> /\ sy_queue = <<>> /\ sy_batch = {}
    /\ sy_index_data = NoFile /\ sy_successful = 0 /\ sy_fetches = 0 /\ sy_failed = {}
    /\ sy_faults = 0 /\ sy_run_faults = 0 /\ sy_runs = 0 /\ sy_prev = "none"
    /\ sy_idem = FALSE /\ sy_snapshot = <<>> /\ sy_phase_failed = {} /\ sy_api_calls = 0

\* The upstream publishes its next vote.
PublishVote ==
    /\ SyncFrame
    /\ sy_pc = "idle"
    /\ sy_published < Len(sy_universe)
    /\ sy_published' = sy_published + 1
    /\ sy_prev' = "other"
    /\ UNCHANGED <<sy_universe, sy_now, sy_ticks, syncArtifacts, sy_pc, sy_mode,
                   sy_force_full, sy_api_votes, sy_new_vote_ids, sy_queue, sy_batch,
                   sy_index_data, sy_successful, sy_fetches, sy_failed, sy_faults,
                   sy_run_faults, sy_runs, sy_idem, sy_snapshot, sy_phase_failed,
                   sy_api_calls>>

\* Time passes between two runs: until the party-line result reaches its
\* expiry, or until every cache written so far is past its expiry.
ClockSteps == {PARTY_LINE_CACHE_DURATION, CacheDuration + 1}

Tick(d) ==
    /\ SyncFrame
    /\ sy_pc = "idle"
    /\ sy_ticks < MaxTicks
    /\ sy_now' = sy_now + d
    /\ sy_ticks' = sy_ticks + 1
    /\ UNCHANGED <<sy_universe, sy_published, syncArtifacts, syncLocals>>

\* main() constructs the updater and calls the run method of the mode.
StartSync(mode) ==
    /\ SyncFrame
    /\ sy_pc = "idle"
    /\ sy_runs < MaxSyncRuns
    /\ sy_mode' = mode
    /\ sy_force_full' = (mode \in {"full", "party-line"})
    /\ sy_pc' = CASE mode = "incremental" -> "details"
                  [] mode = "party-line" -> "party_line"
                  [] OTHER -> "check"
    /\ sy_api_votes' = <<>> /\ sy_new_vote_ids' = <<>> /\ sy_queue' = <<>> /\ sy_batch' = {}
    /\ sy_index_data' = NoFile /\ sy_successful' = 0 /\ sy_fetches' = 0 /\ sy_failed' = {}
    /\ sy_run_faults' = 0
    /\ sy_idem' = (mode = "auto" /\ sy_prev = "clean_auto" /\ AllCachesFresh)
    /\ sy_snapshot' = Artifacts
    /\ sy_phase_failed' = {}
    /\ sy_api_calls' = 0
    /\ UNCHANGED <<sy_universe, sy_published, sy_now, sy_ticks, syncArtifacts, sy_faults,
                   sy_runs, sy_prev>>

\* update_party_line_stats_force / the calculation of update_party_line_stats:
\* the result file and its expiry after calculate_all_party_line_stats.
PartyLineAfter(force_recalculate, vote_details) ==
    LET done == calculate_all_party_line_stats(sy_party_line, force_recalculate,
                                               MpListFromCache, vote_details)
    IN  [file |-> done.file,
         expires |-> IF done.result # NoDoc THEN sy_now + PARTY_LINE_CACHE_DURATION
                     ELSE sy_party_line_expires,
         failed |-> done.result = NoDoc]

\* The list check_for_new_votes receives (<<>> when the request fails) and
\* the new identifiers it derives from it.
CheckApiVotes(ok) == IF ok THEN FirstN(UpstreamList, CheckLimit) ELSE <<>>

CheckNewIds(ok) ==
    IF CheckApiVotes(ok) = <<>> THEN {}
    ELSE NewVoteIdsOfCheck(CheckApiVotes(ok), sy_votes_cache)

\* check_for_new_votes up to _add_votes_to_cache: the list request, the
\* detection of new votes and their insertion into the recent-votes cache.
CheckForNewVotes(ok, order) ==
    /\ SyncFrame
    /\ sy_pc = "check"
    /\ LET api_votes == CheckApiVotes(ok)
           new_ids == CheckNewIds(ok)
       IN  /\ order \in SetOrders(new_ids)
           /\ sy_api_votes' = api_votes
           /\ sy_new_vote_ids' = order
           /\ sy_queue' = order
           /\ sy_votes_cache' = IF new_ids = {} THEN sy_votes_cache
                                ELSE add_votes_to_cache(order, ApiVoteData(api_votes),
                                                        sy_votes_cache, sy_now)
           /\ sy_pc' = IF new_ids = {} THEN "politicians" ELSE "check_details"
    /\ CountFault(~ok)
    /\ ApiCalls(1)
    /\ UNCHANGED <<sy_universe, sy_published, sy_now, sy_ticks, sy_politicians,
                   sy_vote_index, sy_vote_details, sy_bills_cache, sy_bills_index,
                   sy_mp_votes, sy_party_line, sy_party_line_expires, sy_mode,
                   sy_force_full, sy_batch, sy_index_data, sy_successful, sy_fetches,
                   sy_failed, sy_runs, sy_prev, sy_idem, sy_snapshot, sy_phase_failed>>

\* _cache_new_vote_details, one iteration: _cache_single_vote_details and,
\* when it returns True, _update_vote_cache_index.
CacheNewVote(outcome) ==
    /\ SyncFrame
    /\ sy_pc = "check_details"
    /\ sy_queue # <<>>
    /\ LET vote_id == Head(sy_queue)
           vote == ApiVoteData(sy_api_votes)[vote_id]
       IN  /\ sy_vote_details' =
                  IF WritesDetail(outcome)
                  THEN WriteDetail(sy_vote_details,
                                   DetailFile(vote_id, UpstreamVoteOf(vote_id), outcome))
                  ELSE sy_vote_details
           /\ sy_vote_index' = IF CacheSingleSucceeds(outcome)
                               THEN WithIndexEntry(sy_vote_index, vote_id, vote)
                               ELSE sy_vote_index
           /\ sy_successful' = sy_successful + (IF CacheSingleSucceeds(outcome) THEN 1 ELSE 0)
           /\ sy_failed' = IF outcome = "ok" THEN sy_failed ELSE sy_failed \cup {vote_id}
    /\ sy_queue' = Tail(sy_queue)
    /\ sy_fetches' = sy_fetches + 1
    /\ CountFault(outcome # "ok")
    /\ ApiCalls(RequestsOfFetch(outcome))
    /\ UNCHANGED <<sy_universe, sy_published, sy_now, sy_ticks, sy_politicians,
                   sy_votes_cache, sy_bills_cache, sy_bills_index, sy_mp_votes,
                   sy_party_line, sy_party_line_expires, sy_pc, sy_mode, sy_force_full,
                   sy_api_votes, sy_new_vote_ids, sy_batch, sy_index_data, sy_runs,
                   sy_prev, sy_idem, sy_snapshot, sy_phase_failed>>

\* _expire_cache_file on a JSON envelope.
expire_cache_file(file) ==
    IF file.exists THEN [file EXCEPT !.expires = sy_now - ExpireBack] ELSE file

\* The rest of check_for_new_votes once the loop over the new votes is over:
\* with a cached vote, propagation into the existing legislator records and
\* the bills index; with none, the fallback that expires the vote caches;
\* then the forced party-line update.
PropagateNewVotes ==
    /\ SyncFrame
    /\ sy_pc = "check_details"
    /\ sy_queue = <<>>
    /\ IF sy_successful > 0
       THEN /\ sy_mp_votes' =
                   [m \in DOMAIN sy_mp_votes |->
                       IF sy_mp_votes[m].exists
                       THEN update_mp_record(m, sy_mp_votes[m], sy_new_vote_ids,
                                             sy_vote_details)
                       ELSE sy_mp_votes[m]]
            /\ sy_bills_index' =
                   IF bills_affected(sy_new_vote_ids, ApiVoteData(sy_api_votes))
                   THEN BillsIndexFile(build_bills_with_votes_index(sy_vote_index,
                                                                    sy_vote_details),
                                       sy_now)
                   ELSE sy_bills_index
            /\ UNCHANGED <<sy_votes_cache, sy_bills_cache>>
       ELSE /\ sy_votes_cache' = expire_cache_file(sy_votes_cache)
            /\ sy_bills_cache' = expire_cache_file(sy_bills_cache)
            /\ sy_mp_votes' = [m \in DOMAIN sy_mp_votes |-> expire_cache_file(sy_mp_votes[m])]
            /\ UNCHANGED sy_bills_index
    /\ LET after == PartyLineAfter(TRUE, sy_vote_details)
       IN  /\ sy_party_line' = after.file /\ sy_party_line_expires' = after.expires
           /\ sy_phase_failed' = IF after.failed
                                  THEN sy_phase_failed \cup {"Party-Line Stats (Forced)"}
                                  ELSE sy_phase_failed
    /\ sy_pc' = "politicians"
    /\ UNCHANGED <<sy_universe, sy_published, sy_now, sy_ticks, sy_politicians,
                   sy_vote_index, sy_vote_details, sy_mode, sy_force_full, sy_api_votes,
                   sy_new_vote_ids, sy_queue, sy_batch, sy_index_data, sy_successful,
                   sy_fetches, sy_failed, sy_faults, sy_run_faults, sy_runs, sy_prev,
                   sy_idem, sy_snapshot,
                   sy_api_calls>>

\* update_politicians_cache
UpdatePoliticians(ok) ==
    /\ SyncFrame
    /\ sy_pc = "politicians"
    /\ LET expired == is_cache_expired(sy_politicians, sy_now, sy_force_full)
       IN  /\ sy_politicians' = IF expired /\ ok THEN save_cache_data(SyncRoster, sy_now)
                                ELSE sy_politicians
           /\ CountFault(expired /\ ~ok)
           /\ ApiCalls(IF expired THEN 1 ELSE 0)
    /\ sy_pc' = "votes"
    /\ UNCHANGED <<sy_universe, sy_published, sy_now, sy_ticks, sy_votes_cache,
                   sy_vote_index, sy_vote_details, sy_bills_cache, sy_bills_index,
                   sy_mp_votes, sy_party_line, sy_party_line_expires, sy_mode,
                   sy_force_full, sy_api_votes, sy_new_vote_ids, sy_queue, sy_batch,
                   sy_index_data, sy_successful, sy_fetches, sy_failed, sy_runs, sy_prev,
                   sy_idem, sy_snapshot, sy_phase_failed>>

\* update_votes_cache
UpdateVotesCache(ok) ==
    /\ SyncFrame
    /\ sy_pc = "votes"
    /\ LET expired == is_cache_expired(sy_votes_cache, sy_now, sy_force_full)
           objects == FirstN(UpstreamList, VotesCacheLimit)
       IN  /\ sy_votes_cache' = IF expired /\ ok /\ objects # <<>>
                                THEN save_cache_data(objects, sy_now)
                                ELSE sy_votes_cache
           /\ CountFault(expired /\ ~ok)
           /\ ApiCalls(IF expired THEN 1 ELSE 0)
    /\ sy_pc' = "details"
    /\ UNCHANGED <<sy_universe, sy_published, sy_now, sy_ticks, sy_politicians,
                   sy_vote_index, sy_vote_details, sy_bills_cache, sy_bills_index,
                   sy_mp_votes, sy_party_line, sy_party_line_expires, sy_mode,
                   sy_force_full, sy_api_votes, sy_new_vote_ids, sy_queue, sy_batch,
                   sy_index_data, sy_successful, sy_fetches, sy_failed, sy_runs, sy_prev,
                   sy_idem, sy_snapshot, sy_phase_failed>>

\* The identifiers of the first batch_size votes of a list of identifiers.
BatchOf(queue) == SeqToSet(FirstN(queue, batch_size))

\* s[n:]
DropN(s, n) == IF Len(s) <= n THEN <<>> ELSE SubSeq(s, n + 1, Len(s))

\* update_vote_details_incremental up to its loop: the index is loaded, the
\* upstream list requested and the votes missing from the index queued.
StartDetailsSync(ok) ==
    /\ SyncFrame
    /\ sy_pc = "details"
    /\ LET api_votes == IF ok THEN FirstN(UpstreamList, DetailsLimit) ELSE <<>>
           new_votes == NewVotesOfSync(api_votes, IndexKeys(sy_vote_index))
           ids == [k \in DOMAIN new_votes |-> VoteIdOfUrl(new_votes[k].url)]
       IN  /\ sy_api_votes' = api_votes
           /\ sy_index_data' = IF sy_vote_index.exists THEN sy_vote_index
                               ELSE [exists |-> TRUE, cached_votes |-> EmptyMap]
           /\ sy_batch' = BatchOf(ids)
           /\ sy_queue' = DropN(ids, batch_size)
           /\ sy_pc' = IF new_votes = <<>> THEN AfterDetails ELSE "details_loop"
    /\ sy_successful' = 0
    /\ CountFault(~ok)
    /\ ApiCalls(1)
    /\ UNCHANGED <<sy_universe, sy_published, sy_now, sy_ticks, syncArtifacts, sy_mode,
                   sy_force_full, sy_new_vote_ids, sy_fetches, sy_failed, sy_runs,
                   sy_prev, sy_idem, sy_snapshot, sy_phase_failed>>

\* One future of the current batch completes: _cache_single_vote_details in
\* a worker and, when it returned True, the entry added to index_data; the
\* next batch is submitted when the last future of a batch has completed.
FetchBatchVote(vote_id, outcome) ==
    /\ SyncFrame
    /\ sy_pc = "details_loop"
    /\ vote_id \in sy_batch
    /\ sy_vote_details' =
           IF WritesDetail(outcome)
           THEN WriteDetail(sy_vote_details,
                            DetailFile(vote_id, UpstreamVoteOf(vote_id), outcome))
           ELSE sy_vote_details
    /\ sy_index_data' = IF CacheSingleSucceeds(outcome)
                        THEN WithIndexEntry(sy_index_data, vote_id,
                                            ApiVoteData(sy_api_votes)[vote_id])
                        ELSE sy_index_data
    /\ sy_successful' = sy_successful + (IF CacheSingleSucceeds(outcome) THEN 1 ELSE 0)
    /\ sy_failed' = IF outcome = "ok" THEN sy_failed ELSE sy_failed \cup {vote_id}
    /\ sy_fetches' = sy_fetches + 1
    /\ IF sy_batch = {vote_id}
       THEN sy_batch' = BatchOf(sy_queue) /\ sy_queue' = DropN(sy_queue, batch_size)
       ELSE sy_batch' = sy_batch \ {vote_id} /\ sy_queue' = sy_queue
    /\ CountFault(outcome # "ok")
    /\ ApiCalls(RequestsOfFetch(outcome))
    /\ UNCHANGED <<sy_universe, sy_published, sy_now, sy_ticks, sy_politicians,
                   sy_votes_cache, sy_vote_index, sy_bills_cache, sy_bills_index,
                   sy_mp_votes, sy_party_line, sy_party_line_expires, sy_pc, sy_mode,
                   sy_force_full, sy_api_votes, sy_new_vote_ids, sy_runs, sy_prev,
                   sy_idem, sy_snapshot, sy_phase_failed>>

\* The end of update_vote_details_incremental: index_data is written.
SaveVoteIndex ==
    /\ SyncFrame
    /\ sy_pc = "details_loop"
    /\ sy_batch = {}
    /\ sy_vote_index' = sy_index_data
    /\ sy_pc' = AfterDetails
    /\ UNCHANGED <<sy_universe, sy_published, sy_now, sy_ticks, sy_politicians,
                   sy_votes_cache, sy_vote_details, sy_bills_cache, sy_bills_index,
                   sy_mp_votes, sy_party_line, sy_party_line_expires, sy_mode,
                   sy_force_full, sy_api_votes, sy_new_vote_ids, sy_queue, sy_batch,
                   sy_index_data, sy_successful, sy_fetches, sy_failed, sy_faults,
                   sy_run_faults, sy_runs, sy_prev, sy_idem, sy_snapshot, sy_phase_failed,
                   sy_api_calls>>

\* update_bills_cache: the bills list and, when saved, the bills index.
UpdateBills(ok) ==
    /\ SyncFrame
    /\ sy_pc = "bills"
    /\ LET expired == is_cache_expired(sy_bills_cache, sy_now, sy_force_full)
       IN  /\ sy_bills_cache' = IF expired /\ ok THEN save_cache_data(<<"C-1">>, sy_now)
                                ELSE sy_bills_cache
           /\ sy_bills_index' =
                  IF expired /\ ok
                  THEN BillsIndexFile(build_bills_with_votes_index(sy_vote_index,
                                                                   sy_vote_details),
                                      sy_now)
                  ELSE sy_bills_index
           /\ CountFault(expired /\ ~ok)
           /\ ApiCalls(IF expired THEN 1 ELSE 0)
    /\ sy_pc' = "mp_votes"
    /\ UNCHANGED <<sy_universe, sy_published, sy_now, sy_ticks, sy_politicians,
                   sy_votes_cache, sy_vote_index, sy_vote_details, sy_mp_votes,
                   sy_party_line, sy_party_line_expires, sy_mode, sy_force_full,
                   sy_api_votes, sy_new_vote_ids, sy_queue, sy_batch, sy_index_data,
                   sy_successful, sy_fetches, sy_failed, sy_runs, sy_prev, sy_idem,
                   sy_snapshot, sy_phase_failed>>

\* update_mp_voting_records: every legislator of the politicians cache whose
\* record is missing or expired gets a record rebuilt from the detail files,
\* unless the rebuild finds no vote.
UpdateMpVotingRecords ==
    /\ SyncFrame
    /\ sy_pc = "mp_votes"
    /\ sy_mp_votes' =
           [m \in DOMAIN sy_mp_votes |->
               LET votes == build_mp_votes_from_cache(m, sy_vote_details)
               IN  IF /\ sy_politicians.exists
                      /\ m \in DOMAIN sy_politicians.data
                      /\ is_cache_expired(sy_mp_votes[m], sy_now, sy_force_full)
                      /\ votes # <<>>
                   THEN save_cache_data(votes, sy_now)
                   ELSE sy_mp_votes[m]]
    /\ sy_phase_failed' = IF sy_politicians.exists THEN sy_phase_failed
                           ELSE sy_phase_failed \cup {"MP Voting Records"}
    /\ sy_pc' = "party_line"
    /\ UNCHANGED <<sy_universe, sy_published, sy_now, sy_ticks, sy_politicians,
                   sy_votes_cache, sy_vote_index, sy_vote_details, sy_bills_cache,
                   sy_bills_index, sy_party_line, sy_party_line_expires, sy_mode,
                   sy_force_full, sy_api_votes, sy_new_vote_ids, sy_queue, sy_batch,
                   sy_index_data, sy_successful, sy_fetches, sy_failed, sy_faults,
                   sy_run_faults, sy_runs, sy_prev, sy_idem, sy_snapshot,
                   sy_api_calls>>

\* update_party_line_stats: skipped while the result is fresh (unless
\* force_full), else calculate_all_party_line_stats without the force flag.
UpdatePartyLineStats ==
    /\ SyncFrame
    /\ sy_pc = "party_line"
    /\ LET cached == sy_party_line # NoDoc /\ sy_now < sy_party_line_expires
           skipped == ~sy_force_full /\ cached
           after == PartyLineAfter(FALSE, sy_vote_details)
       IN  IF skipped THEN UNCHANGED <<sy_party_line, sy_party_line_expires, sy_phase_failed>>
           ELSE /\ sy_party_line' = after.file /\ sy_party_line_expires' = after.expires
                /\ sy_phase_failed' = IF after.failed
                                       THEN sy_phase_failed \cup {"Party-Line Stats"}
                                       ELSE sy_phase_failed
    /\ sy_pc' = "statistics"
    /\ UNCHANGED <<sy_universe, sy_published, sy_now, sy_ticks, sy_politicians,
                   sy_votes_cache, sy_vote_index, sy_vote_details, sy_bills_cache,
                   sy_bills_index, sy_mp_votes, sy_mode, sy_force_full, sy_api_votes,
                   sy_new_vote_ids, sy_queue, sy_batch, sy_index_data, sy_successful,
                   sy_fetches, sy_failed, sy_faults, sy_run_faults, sy_runs, sy_prev,
                   sy_idem, sy_snapshot,
                   sy_api_calls>>

\* save_statistics, and the run returns to main().
SaveStatistics ==
    /\ SyncFrame
    /\ sy_pc = "statistics"
    /\ sy_pc' = "idle"
    /\ sy_runs' = sy_runs + 1
    /\ sy_prev' = IF sy_mode = "auto" /\ sy_run_faults = 0 THEN "clean_auto" ELSE "other"
    /\ UNCHANGED <<sy_universe, sy_published, sy_now, sy_ticks, syncArtifacts, sy_mode,
                   sy_force_full, sy_api_votes, sy_new_vote_ids, sy_queue, sy_batch,
                   sy_index_data, sy_successful, sy_fetches, sy_failed, sy_faults,
                   sy_run_faults, sy_idem, sy_snapshot, sy_phase_failed,
                   sy_api_calls>>

SyncNext ==
    \/ PublishVote
    \/ \E d \in ClockSteps : Tick(d)
    \/ \E mode \in SyncModes : StartSync(mode)
    \/ \E ok \in ListOutcomes : \E order \in SetOrders(CheckNewIds(ok)) :
           CheckForNewVotes(ok, order)
    \/ \E outcome \in FetchOutcomes : CacheNewVote(outcome)
    \/ PropagateNewVotes
    \/ \E ok \in ListOutcomes : UpdatePoliticians(ok)
    \/ \E ok \in ListOutcomes : UpdateVotesCache(ok)
    \/ \E ok \in ListOutcomes : StartDetailsSync(ok)
    \/ \E vote_id \in sy_batch : \E outcome \in FetchOutcomes : FetchBatchVote(vote_id, outcome)
    \/ SaveVoteIndex
    \/ \E ok \in ListOutcomes : UpdateBills(ok)
    \/ UpdateMpVotingRecords
    \/ UpdatePartyLineStats
    \/ SaveStatistics

SpecSync == SyncInit /\ [][SyncNext]_vars

(***************************************************************************)
(* SpecCold: auto-mode runs of the synchroniser from an empty cache against *)
(* an upstream that already holds as many votes as the date window of      *)
(* check_for_new_votes, or one more, dated one per day, and that answers   *)
(* every request                                                           *)
(***************************************************************************)
ColdUniverses ==
    {[i \in 1..(DateWindow + 1) |->
         UpstreamVote(i, i, "", [m \in 1..NMps |-> IF m = 1 THEN "Yes" ELSE choice])] :
        choice \in {"Yes", "No"}}

ColdInit ==
    /\ ToolsIdle
    /\ StatsIdle /\ LockIdle /\ ResumeIdle /\ MpIdle /\ FreshIdle
    /\ sy_universe \in ColdUniverses
    /\ sy_published \in {DateWindow, DateWindow + 1} /\ sy_now = 0 /\ sy_ticks = 0
    /\ sy_politicians = NoFile /\ sy_votes_cache = NoFile /\ sy_vote_index = NoFile
    /\ sy_vote_details = <<>> /\ sy_bills_cache = NoFile /\ sy_bills_index = NoFile
    /\ sy_mp_votes = [m \in 1..NMps |-> NoFile]
    /\ sy_party_line = NoDoc /\ sy_party_line_expires = 0
    /\ sy_pc = "idle" /\ sy_mode = "auto" /\ sy_force_full = FALSE
    /\ sy_api_votes = <<>> /\ sy_new_vote_ids = <<>> /\ sy_queue = <<>> /\ sy_batch = {}
    /\ sy_index_data = NoFile /\ sy_successful = 0 /\ sy_fetches = 0 /\ sy_failed = {}
    /\ sy_faults = MaxFaults /\ sy_run_faults = 0 /\ sy_runs = 0 /\ sy_prev = "none"
    /\ sy_idem = FALSE /\ sy_snapshot = <<>> /\ sy_phase_failed = {} /\ sy_api_calls = 0

\* After check_for_new_votes has cached every vote the detail sync of the
\* same run finds nothing to fetch, so its batch steps are never enabled.
ColdNext ==
    \/ StartSync("auto")
    \/ \E ok \in ListOutcomes : \E order \in SetOrders(CheckNewIds(ok)) :
           CheckForNewVotes(ok, order)
    \/ \E outcome \in FetchOutcomes : CacheNewVote(outcome)
    \/ PropagateNewVotes
    \/ \E ok \in ListOutcomes : UpdatePoliticians(ok)
    \/ \E ok \in ListOutcomes : UpdateVotesCache(ok)
    \/ \E ok \in ListOutcomes : StartDetailsSync(ok)
    \/ \E ok \in ListOutcomes : UpdateBills(ok)
    \/ UpdateMpVotingRecords
    \/ UpdatePartyLineStats
    \/ SaveStatistics

SpecCold == ColdInit /\ [][ColdNext]_vars

(***************************************************************************)
(* SpecModes: runs of the synchroniser in each of the modes auto,          *)
(* incremental, full and party-line against an upstream that publishes     *)
(* votes and answers every request (no --force on the command line)        *)
(***************************************************************************)
RunModes == {"auto", "incremental", "full", "party-line"}

ModesInit ==
    /\ ToolsIdle
    /\ StatsIdle /\ LockIdle /\ ResumeIdle /\ MpIdle /\ FreshIdle
    /\ sy_universe \in SyncUniverses(NSyncVotes)
    /\ sy_published = 0 /\ sy_now = 0 /\ sy_ticks = 0
    /\ sy_politicians = NoFile /\ sy_votes_cache = NoFile /\ sy_vote_index = NoFile
    /\ sy_vote_details = <<>> /\ sy_bills_cache = NoFile /\ sy_bills_index = NoFile
    /\ sy_mp_votes = [m \in 1..NMps |-> NoFile]
    /\ sy_party_line = NoDoc /\ sy_party_line_expires = 0
    /\ sy_pc = "idle" /\ sy_mode = "auto" /\ sy_force_full = FALSE
    /\ sy_api_votes = <<>> /\ sy_new_vote_ids = <<>> /\ sy_queue = <<>> /\ sy_batch = {}
    /\ sy_index_data = NoFile /\ sy_successful = 0 /\ sy_fetches = 0 /\ sy_failed = {}
    /\ sy_faults = MaxFaults /\ sy_run_faults = 0 /\ sy_runs = 0 /\ sy_prev = "none"
    /\ sy_idem = FALSE /\ sy_snapshot = <<>> /\ sy_phase_failed = {} /\ sy_api_calls = 0

ModesNext ==
    \/ PublishVote
    \/ \E d \in ClockSteps : Tick(d)
    \/ \E mode \in RunModes : StartSync(mode)
    \/ \E ok \in ListOutcomes : \E order \in SetOrders(CheckNewIds(ok)) :
           CheckForNewVotes(ok, order)
    \/ \E outcome \in FetchOutcomes : CacheNewVote(outcome)
    \/ PropagateNewVotes
    \/ \E ok \in ListOutcomes : UpdatePoliticians(ok)
    \/ \E ok \in ListOutcomes : UpdateVotesCache(ok)
    \/ \E ok \in ListOutcomes : StartDetailsSync(ok)
    \/ \E vote_id \in sy_batch : \E outcome \in FetchOutcomes : FetchBatchVote(vote_id, outcome)
    \/ SaveVoteIndex
    \/ \E ok \in ListOutcomes : UpdateBills(ok)
    \/ UpdateMpVotingRecords
    \/ UpdatePartyLineStats
    \/ SaveStatistics

SpecModes == ModesInit /\ [][ModesNext]_vars

(***************************************************************************)
(* SpecPartial: runs in every mode against an upstream of NSyncVotes + 1    *)
(* votes in which every legislator has a ballot, the first already         *)
(* published, and whose requests may fail                                  *)
(***************************************************************************)
PartialUniverse ==
    [i \in 1..(NSyncVotes + 1) |->
        UpstreamVote(i, i, "", [m \in 1..NMps |-> IF m = 1 THEN "Yes" ELSE "No"])]

PartialInit ==
    /\ ToolsIdle
    /\ StatsIdle /\ LockIdle /\ ResumeIdle /\ MpIdle /\ FreshIdle
    /\ sy_universe = PartialUniverse
    /\ sy_published = 1 /\ sy_now = 0 /\ sy_ticks = 0
    /\ sy_politicians = NoFile /\ sy_votes_cache = NoFile /\ sy_vote_index = NoFile
    /\ sy_vote_details = <<>> /\ sy_bills_cache = NoFile /\ sy_bills_index = NoFile
    /\ sy_mp_votes = [m \in 1..NMps |-> NoFile]
    /\ sy_party_line = NoDoc /\ sy_party_line_expires = 0
    /\ sy_pc = "idle" /\ sy_mode = "auto" /\ sy_force_full = FALSE
    /\ sy_api_votes = <<>> /\ sy_new_vote_ids = <<>> /\ sy_queue = <<>> /\ sy_batch = {}
    /\ sy_index_data = NoFile /\ sy_successful = 0 /\ sy_fetches = 0 /\ sy_failed = {}
    /\ sy_faults = 0 /\ sy_run_faults = 0 /\ sy_runs = 0 /\ sy_prev = "none"
    /\ sy_idem = FALSE /\ sy_snapshot = <<>> /\ sy_phase_failed = {} /\ sy_api_calls = 0

PartialNext ==
    \/ PublishVote
    \/ \E mode \in RunModes : StartSync(mode)
    \/ \E ok \in ListOutcomes : \E order \in SetOrders(CheckNewIds(ok)) :
           CheckForNewVotes(ok, order)
    \/ \E outcome \in FetchOutcomes : CacheNewVote(outcome)
    \/ PropagateNewVotes
    \/ \E ok \in ListOutcomes : UpdatePoliticians(ok)
    \/ \E ok \in ListOutcomes : UpdateVotesCache(ok)
    \/ \E ok \in ListOutcomes : StartDetailsSync(ok)
    \/ \E vote_id \in sy_batch : \E outcome \in FetchOutcomes : FetchBatchVote(vote_id, outcome)
    \/ SaveVoteIndex
    \/ \E ok \in ListOutcomes : UpdateBills(ok)
    \/ UpdateMpVotingRecords
    \/ UpdatePartyLineStats
    \/ SaveStatistics

SpecPartial == PartialInit /\ [][PartialNext]_vars

(***************************************************************************)
(* SpecStale: SpecPartial with an upstream that also publishes while a run *)
(* is in progress                                                          *)
(***************************************************************************)
\* Upstream publishes the next vote between two steps of a run.
PublishMidRun ==
    /\ SyncFrame
    /\ sy_pc # "idle"
    /\ sy_published < Len(sy_universe)
    /\ sy_published' = sy_published + 1
    /\ UNCHANGED <<sy_universe, sy_now, sy_ticks, syncArtifacts, sy_pc, sy_mode,
                   sy_force_full, sy_api_votes, sy_new_vote_ids, sy_queue, sy_batch,
                   sy_index_data, sy_successful, sy_fetches, sy_failed, sy_faults,
                   sy_run_faults, sy_runs, sy_prev, sy_idem, sy_snapshot, sy_phase_failed,
                   sy_api_calls>>

StaleNext == PartialNext \/ PublishMidRun

SpecStale == PartialInit /\ [][StaleNext]_vars

(***************************************************************************)
(* SpecWatermark: auto runs against an upstream that has already published *)
(* DateWindow + 1 votes, each on its own date, that answers the change     *)
(* detector's list request, and whose other requests may fail              *)
(***************************************************************************)
WatermarkUniverse ==
    [i \in 1..(DateWindow + 1) |->
        UpstreamVote(i, i, "", [m \in 1..NMps |-> IF m = 1 THEN "Yes" ELSE "No"])]

WatermarkInit ==
    /\ ToolsIdle
    /\ StatsIdle /\ LockIdle /\ ResumeIdle /\ MpIdle /\ FreshIdle
    /\ sy_universe = WatermarkUniverse
    /\ sy_published = DateWindow + 1 /\ sy_now = 0 /\ sy_ticks = 0
    /\ sy_politicians = NoFile /\ sy_votes_cache = NoFile /\ sy_vote_index = NoFile
    /\ sy_vote_details = <<>> /\ sy_bills_cache = NoFile /\ sy_bills_index = NoFile
    /\ sy_mp_votes = [m \in 1..NMps |-> NoFile]
    /\ sy_party_line = NoDoc /\ sy_party_line_expires = 0
    /\ sy_pc = "idle" /\ sy_mode = "auto" /\ sy_force_full = FALSE
    /\ sy_api_votes = <<>> /\ sy_new_vote_ids = <<>> /\ sy_queue = <<>> /\ sy_batch = {}
    /\ sy_index_data = NoFile /\ sy_successful = 0 /\ sy_fetches = 0 /\ sy_failed = {}
    /\ sy_faults = 0 /\ sy_run_faults = 0 /\ sy_runs = 0 /\ sy_prev = "none"
    /\ sy_idem = FALSE /\ sy_snapshot = <<>> /\ sy_phase_failed = {} /\ sy_api_calls = 0

WatermarkNext ==
    \/ StartSync("auto")
    \/ \E order \in SetOrders(CheckNewIds(TRUE)) : CheckForNewVotes(TRUE, order)
    \/ \E outcome \in FetchOutcomes : CacheNewVote(outcome)
    \/ PropagateNewVotes
    \/ \E ok \in ListOutcomes : UpdatePoliticians(ok)
    \/ \E ok \in ListOutcomes : UpdateVotesCache(ok)
    \/ \E ok \in ListOutcomes : StartDetailsSync(ok)
    \/ \E vote_id \in sy_batch : \E outcome \in FetchOutcomes : FetchBatchVote(vote_id, outcome)
    \/ SaveVoteIndex
    \/ \E ok \in ListOutcomes : UpdateBills(ok)
    \/ UpdateMpVotingRecords
    \/ UpdatePartyLineStats
    \/ SaveStatistics

SpecWatermark == WatermarkInit /\ [][WatermarkNext]_vars

(***************************************************************************)
(* Properties of the synchroniser                                          *)
(***************************************************************************)
\* check_for_new_votes has just received a vote list and derived its new set.
CheckDetected == sy_pc = "check" /\ sy_pc' # "check" /\ sy_api_votes' # <<>>

\* update_vote_details_incremental has just received a vote list and queued
\* the votes it found new.
SyncDetected == sy_pc = "details" /\ sy_pc' # "details" /\ sy_api_votes' # <<>>

\* The upstream votes of the list just received that are not indexed.
NotIndexed == VoteIds(sy_api_votes') \ IndexKeys(sy_vote_index)

\* The votes of the recent-votes cache, and the upstream votes of the list
\* just received that (a) are not among them, (b) are dated later than every
\* one of the first DateWindow of them.
RecentVotes == IF sy_votes_cache.exists THEN sy_votes_cache.data ELSE <<>>

NotInRecentVotes == VoteIds(sy_api_votes') \ VoteIds(RecentVotes)

LaterThanRecentVotes ==
    {VoteIdOfUrl(sy_api_votes'[k].url) : k \in
        {i \in DOMAIN sy_api_votes' :
            \A j \in DOMAIN RecentVotes : j <= DateWindow => sy_api_votes'[i].date > RecentVotes[j].date}}

\* C5: Change detection by identifier diff - whenever a detector has
\* received an upstream vote list, the set of votes it reports as new is
\* exactly the set of upstream votes whose identifier is not a key of the
\* vote cache index, for check_for_new_votes (auto mode) as well as for the
\* detail-sync phase.
C5_DetectionByIndexDiff ==
    [][/\ CheckDetected => SeqToSet(sy_new_vote_ids') = NotIndexed
       /\ SyncDetected => sy_batch' \cup SeqToSet(sy_queue') = NotIndexed]_vars

\* What the two detectors compute: the detail-sync phase diffs against the
\* index; check_for_new_votes diffs against the recent-votes cache and, when
\* that gives nothing, takes the votes dated later than the first DateWindow
\* cached votes.
DetectorsAsCoded ==
    [][/\ CheckDetected =>
              SeqToSet(sy_new_vote_ids') =
                  IF NotInRecentVotes # {} THEN NotInRecentVotes
                  ELSE IF RecentVotes # <<>> THEN LaterThanRecentVotes
                  ELSE {}
       /\ SyncDetected => sy_batch' \cup SeqToSet(sy_queue') = NotIndexed]_vars

\* C6: Index entry only after artifact - every vote identifier in the vote
\* cache index on disk, and in the index a detail sync holds in memory, has
\* a vote detail file.
C6_IndexedHasDetailFile ==
    /\ IndexKeys(sy_vote_index) \subseteq DetailIds(sy_vote_details)
    /\ IndexKeys(sy_index_data) \subseteq DetailIds(sy_vote_details)

\* One vote is indexed with its file while the fetch of another failed,
\* leaving it without file and without index entry.
C6_Witness ==
    /\ IndexKeys(sy_vote_index) # {}
    /\ \E v \in sy_failed : v \notin DetailIds(sy_vote_details) /\ v \notin IndexKeys(sy_vote_index)

\* C7: Failed fetch stays retryable - a step in which a request for a vote
\* that is not indexed fails does not add the vote to the vote cache index,
\* neither on disk nor in the index a detail sync holds in memory.
C7_FailedFetchNotIndexed ==
    [][\A v \in sy_failed' \ sy_failed :
           (v \notin IndexKeys(sy_vote_index) /\ v \notin IndexKeys(sy_index_data))
               => (v \notin IndexKeys(sy_vote_index') /\ v \notin IndexKeys(sy_index_data'))]_vars

\* C8: Idempotence of synchronization - a fault-free auto run that follows a
\* fault-free auto run, with no upstream change in between and all caches
\* fresh, fetches no vote detail and leaves the six artifacts as they were.
C8_SecondRunIdempotent ==
    (sy_idem /\ sy_run_faults = 0) => (sy_fetches = 0 /\ Artifacts = sy_snapshot)

(***************************************************************************)
(* SpecMpStats: calculate_mp_party_line_stats, vote by vote, for one       *)
(* legislator over up to MaxMsVotes votes, and save_incremental_results    *)
(* of the record it returns                                                *)
(***************************************************************************)
MaxMsVotes == 2

\* The legislator's own ballot in a vote, if there is one: with the party the
\* roster gives or with another party written on the ballot.
MsOwnBallots ==
    {<<>>} \cup {<<[politician_url |-> PoliticianUrl(1), party |-> p, ballot |-> c]>> :
                    p \in {"", "Independent"}, c \in Choices}

\* The ballot of the one colleague the roster places in the same party.
MsColleagueBallots ==
    {<<>>, <<[politician_url |-> PoliticianUrl(2), party |-> "", ballot |-> "Paired"]>>}
        \cup {<<[politician_url |-> PoliticianUrl(2), party |-> p, ballot |-> c]>> :
                 p \in {"", "CPC"}, c \in {"Yes", "No"}}

MsVoteData(k) ==
    {[vote_id |-> <<session, k>>, vote |-> [session |-> session, date |-> k],
      ballots |-> own \o colleague] :
        session \in {"45-1", "44-1"}, own \in MsOwnBallots, colleague \in MsColleagueBallots}

MsVotesData(n) == {v \in [1..n -> UNION {MsVoteData(k) : k \in 1..n}] :
                      \A k \in 1..n : v[k] \in MsVoteData(k)}

MpStatsInit ==
    /\ ToolsIdle
    /\ StatsIdle /\ LockIdle /\ ResumeIdle /\ SyncIdle /\ FreshIdle
    /\ ms_mp_slug = 1
    /\ ms_mp_party = "Liberal"
    /\ ms_lookup = [s \in LookupSlugs |-> "Liberal"]
    /\ \E n \in 0..MaxMsVotes : ms_votes_data \in MsVotesData(n)
    /\ ms_idx = 1
    /\ ms_acc = [party_line_votes |-> 0, total_eligible_votes |-> 0,
                 party_discipline_breaks |-> <<>>, party_loyalty_by_session |-> EmptyMap]
    /\ ms_result = NoResult
    /\ ms_doc = NoDoc

\* One iteration of the loop over votes_data.
ExamineVote ==
    /\ ms_result = NoResult
    /\ ms_idx \in DOMAIN ms_votes_data
    /\ ms_acc' = MpStatsStep(ms_acc, ms_votes_data[ms_idx],
                             MpBallotOf(ms_votes_data[ms_idx].ballots, ms_mp_slug),
                             calculate_party_position(ms_votes_data[ms_idx].ballots,
                                                      ms_mp_party, ms_lookup).majority_position)
    /\ ms_idx' = ms_idx + 1
    /\ UNCHANGED <<ms_mp_slug, ms_mp_party, ms_votes_data, ms_lookup, ms_result, ms_doc>>
    /\ MpFrame

\* The final statistics and the return.
ReturnStats ==
    /\ ms_result = NoResult
    /\ ms_idx \notin DOMAIN ms_votes_data
    /\ ms_result' = MpStatsRecord(ms_mp_slug, ms_mp_party, ms_acc)
    /\ UNCHANGED <<ms_mp_slug, ms_mp_party, ms_votes_data, ms_lookup, ms_idx, ms_acc, ms_doc>>
    /\ MpFrame

\* save_incremental_results of the record into a new document.
SaveIncremental ==
    /\ ms_result # NoResult
    /\ ms_doc = NoDoc
    /\ ms_doc' = save_incremental_results(ms_mp_slug, ms_result, ms_doc)
    /\ UNCHANGED <<ms_mp_slug, ms_mp_party, ms_votes_data, ms_lookup, ms_idx, ms_acc,
                   ms_result>>
    /\ MpFrame

MpStatsNext == ExamineVote \/ ReturnStats \/ SaveIncremental

SpecMpStats == MpStatsInit /\ [][MpStatsNext]_vars

\* The k-th vote of votes_data read ballot by ballot: the legislator's own
\* choice (None without a ballot), the Yes and No ballots of the
\* legislator's party, and the party's majority.
MsOwnIdx(k) ==
    {j \in DOMAIN ms_votes_data[k].ballots :
        ms_votes_data[k].ballots[j].politician_url = PoliticianUrl(ms_mp_slug)}

MsOwnChoice(k) ==
    IF MsOwnIdx(k) = {} THEN None
    ELSE ms_votes_data[k].ballots[CHOOSE j \in MsOwnIdx(k) : \A i \in MsOwnIdx(k) : j <= i].ballot

MsPartyChoices(k, choice) ==
    {j \in DOMAIN ms_votes_data[k].ballots :
        LET b == ms_votes_data[k].ballots[j]
            bp == IF b.party # "" THEN b.party
                  ELSE IF b.politician_url[2] \in DOMAIN ms_lookup
                       THEN ms_lookup[b.politician_url[2]] ELSE ""
        IN  /\ bp # ""
            /\ normalize_party_name(bp) = normalize_party_name(ms_mp_party)
            /\ b.ballot = choice}

MsYes(k) == Cardinality(MsPartyChoices(k, "Yes"))

MsNo(k) == Cardinality(MsPartyChoices(k, "No"))

MsMajority(k) == IF MsYes(k) > MsNo(k) THEN "Yes" ELSE "No"

MsEligible(k) == MsOwnChoice(k) \in {"Yes", "No"} /\ MsYes(k) + MsNo(k) > 0

\* The loop has just examined the vote at ms_idx.
Examining == ms_idx \in DOMAIN ms_votes_data /\ ms_idx' = ms_idx + 1

\* C11: Eligibility rule - examining a vote increments total_eligible_votes
\* if and only if the legislator's own ballot is Yes or No and the party has
\* Yes or No ballots; any other vote leaves the totals, every per-session
\* bucket and the discipline-break list as they were.
C11_EligibilityRule ==
    [][Examining =>
          IF MsEligible(ms_idx)
          THEN ms_acc'.total_eligible_votes = ms_acc.total_eligible_votes + 1
          ELSE ms_acc' = ms_acc]_vars

\* Both votes were examined: one counted, and one in which the legislator
\* voted Yes or No while the party had no Yes or No ballot did not.
C11_Witness ==
    /\ Len(ms_votes_data) = 2 /\ ms_idx = 3
    /\ ms_acc.total_eligible_votes = 1
    /\ \E k \in 1..2 : MsOwnChoice(k) \in {"Yes", "No"} /\ MsYes(k) + MsNo(k) = 0

\* C12: Discipline-break detection - examining an eligible vote in which the
\* legislator's choice differs from the party's majority appends exactly one
\* record with the vote's id, the choice as mp_vote and the majority as
\* party_position; any other vote appends none; so the breaks number
\* total_eligible_votes minus party_line_votes.
C12_DisciplineBreaks ==
    /\ [][Examining =>
             ms_acc'.party_discipline_breaks =
                 IF MsEligible(ms_idx) /\ MsOwnChoice(ms_idx) # MsMajority(ms_idx)
                 THEN Append(ms_acc.party_discipline_breaks,
                             [vote_id |-> ms_votes_data[ms_idx].vote_id,
                              mp_vote |-> MsOwnChoice(ms_idx),
                              party_position |-> MsMajority(ms_idx),
                              date |-> ms_votes_data[ms_idx].vote.date])
                 ELSE ms_acc.party_discipline_breaks]_vars
    /\ [](ms_idx > 0 =>
             Len(ms_acc.party_discipline_breaks) =
                 ms_acc.total_eligible_votes - ms_acc.party_line_votes)

\* A 'No' against a 'Yes' majority was recorded, and a vote with the party
\* was not.
C12_Witness ==
    /\ Len(ms_votes_data) = 2 /\ ms_idx = 3
    /\ ms_acc.total_eligible_votes = 2 /\ ms_acc.party_line_votes = 1
    /\ Len(ms_acc.party_discipline_breaks) = 1
    /\ ms_acc.party_discipline_breaks[1].mp_vote = "No"
    /\ ms_acc.party_discipline_breaks[1].party_position = "Yes"

\* C13: No division by zero - a record over zero eligible votes has
\* party_line_percentage 0, a per-session bucket with total 0 has percentage
\* 0, and the summary average over an empty mp_stats map is 0.
C13_NoDivisionByZero ==
    /\ (ms_result # NoResult /\ ms_result.total_eligible_votes = 0)
           => ms_result.party_line_percentage = 0
    /\ ms_result # NoResult =>
           \A session \in DOMAIN ms_result.party_loyalty_by_session :
               ms_result.party_loyalty_by_session[session].total = 0
                   => ms_result.party_loyalty_by_session[session].percentage = 0
    /\ RefreshedSummary(NewDoc.summary, EmptyMap).avg_party_line_percentage = 0
    /\ (ms_doc # NoDoc /\ ms_result.total_eligible_votes = 0)
           => ms_doc.summary.avg_party_line_percentage = 0

\* Two votes were examined, none was eligible, and the record was returned
\* and saved.
C13_Witness ==
    /\ Len(ms_votes_data) = 2
    /\ ms_result # NoResult /\ ms_result.total_eligible_votes = 0
    /\ ms_doc # NoDoc

(***************************************************************************)
(* Properties of the derived views and of the order of the phases          *)
(***************************************************************************)
\* The votes (by url) of a sequence of voting-record entries.
EntryUrls(entries) == {entries[k].url : k \in DOMAIN entries}

\* C15: Voting record is a pure derivation of the corpus - after any
\* sequence of runs every existing per-legislator voting record holds each
\* vote at most once and exactly the votes a full rebuild from the current
\* vote-detail corpus produces for that legislator.
C15_RecordDerivedFromCorpus ==
    (sy_pc = "idle" /\ sy_runs > 0) =>
        \A m \in DOMAIN sy_mp_votes :
            sy_mp_votes[m].exists =>
                /\ Cardinality(EntryUrls(sy_mp_votes[m].data)) = Len(sy_mp_votes[m].data)
                /\ EntryUrls(sy_mp_votes[m].data)
                       = EntryUrls(build_mp_votes_from_cache(m, sy_vote_details))

\* The place of a position of the run in the order change detection,
\* roster, recent-votes summary, vote-detail sync, cross-reference index,
\* per-legislator voting records, analytics, statistics.
PhaseRank(pc) ==
    CASE pc \in {"check", "check_details"} -> 0
      [] pc = "politicians" -> 1
      [] pc = "votes" -> 2
      [] pc \in {"details", "details_loop"} -> 3
      [] pc = "bills" -> 4
      [] pc = "mp_votes" -> 5
      [] pc = "party_line" -> 6
      [] OTHER -> 7

\* A step of a run in auto or full mode.
AutoOrFullStep == sy_mode \in {"auto", "full"} /\ sy_pc # "idle"

PhasesInOrder == sy_pc' # "idle" => PhaseRank(sy_pc) <= PhaseRank(sy_pc')

\* C16 as stated: in auto and full mode the phases execute in the fixed
\* order, and no per-legislator record is modified and no analytics result
\* is written before the roster phase of the same run has executed.
C16_NothingBeforeRoster ==
    [][AutoOrFullStep =>
          /\ PhasesInOrder
          /\ (sy_mp_votes' # sy_mp_votes \/ sy_party_line' # sy_party_line)
                 => PhaseRank(sy_pc) > PhaseRank("politicians")]_vars

\* C16: Fixed dependency order - in auto and full mode the phases execute in
\* the order change detection, roster, recent-votes summary, vote-detail
\* sync, cross-reference index, per-legislator voting records, analytics;
\* the roster is written only by its own phase, and the cross-reference
\* index, the per-legislator records and the analytics result only by their
\* own phase or by the change detector that runs before the roster.
C16_PhaseOrder ==
    [][AutoOrFullStep =>
          /\ PhasesInOrder
          /\ sy_politicians' # sy_politicians => sy_pc = "politicians"
          /\ sy_bills_index' # sy_bills_index => sy_pc \in {"bills", "check_details"}
          /\ sy_mp_votes' # sy_mp_votes => sy_pc \in {"mp_votes", "check_details"}
          /\ sy_party_line' # sy_party_line => sy_pc \in {"party_line", "check_details"}]_vars

\* A run in auto or full mode is about to execute its roster phase and the
\* change detector has already modified a per-legislator record and the
\* analytics result.
C16_Witness ==
    /\ sy_mode \in {"auto", "full"}
    /\ sy_pc = "politicians"
    /\ sy_mp_votes # sy_snapshot[4]
    /\ sy_party_line # sy_snapshot[6]

\* The change detector has finished fetching and propagates.
Propagating == sy_pc = "check_details" /\ sy_pc' = "politicians"

\* The analytics engine is invoked by the analytics phase.
EngineInvoked ==
    /\ sy_pc = "party_line" /\ sy_pc' # "party_line"
    /\ sy_force_full \/ sy_party_line = NoDoc \/ sy_now >= sy_party_line_expires

\* The newly detected votes whose detail file this run has written.
FetchedNewVotes == (SeqToSet(sy_new_vote_ids) \cap DetailIds(sy_vote_details)) \ sy_failed

\* Whether legislator m has a ballot in the detail file of vote_id.
HasBallotIn(m, vote_id) ==
    \E i \in DOMAIN sy_vote_details :
        /\ sy_vote_details[i].vote_id = vote_id
        /\ \E j \in DOMAIN sy_vote_details[i].ballots :
               sy_vote_details[i].ballots[j].politician_url = PoliticianUrl(m)

\* C17: Failed phase gates dependants, partial success does not - without a
\* roster artifact the per-legislator voting-record phase and the analytics
\* engine write nothing and log FAILED; and when at least one newly detected
\* vote was fetched, every existing per-legislator record receives the
\* fetched votes in which the legislator has a ballot.
C17_GatesAndPartialSuccess ==
    [][/\ (sy_pc = "mp_votes" /\ sy_pc' # "mp_votes" /\ ~sy_politicians.exists)
              => /\ sy_mp_votes' = sy_mp_votes
                 /\ "MP Voting Records" \in sy_phase_failed'
       /\ (EngineInvoked /\ ~sy_politicians.exists)
              => /\ sy_party_line' = sy_party_line
                 /\ "Party-Line Stats" \in sy_phase_failed'
       /\ (Propagating /\ ~sy_politicians.exists)
              => /\ sy_party_line' = sy_party_line
                 /\ "Party-Line Stats (Forced)" \in sy_phase_failed'
       /\ (Propagating /\ sy_successful > 0)
              => \A m \in DOMAIN sy_mp_votes :
                     sy_mp_votes[m].exists =>
                         \A vote_id \in FetchedNewVotes :
                             HasBallotIn(m, vote_id) =>
                                 <<"votes", vote_id[1], vote_id[2]>>
                                     \in EntryUrls(sy_mp_votes'[m].data)]_vars

\* Of two newly detected votes one was fetched and one failed, and the
\* fetched one has been propagated into an existing record that does not
\* hold the failed one.
C17_Witness ==
    /\ sy_pc = "politicians"
    /\ Len(sy_new_vote_ids) = 2
    /\ sy_successful = 1
    /\ \E m \in DOMAIN sy_mp_votes :
           /\ sy_mp_votes[m].exists
           /\ \E v \in FetchedNewVotes :
                  <<"votes", v[1], v[2]>> \in EntryUrls(sy_mp_votes[m].data)
           /\ \E v \in sy_failed :
                  <<"votes", v[1], v[2]>> \notin EntryUrls(sy_mp_votes[m].data)

\* A run went through its voting-record and analytics phases without a
\* roster artifact, and both have logged their failure.
RosterMissingReached ==
    /\ sy_pc = "statistics"
    /\ ~sy_politicians.exists
    /\ {"MP Voting Records", "Party-Line Stats"} \subseteq sy_phase_failed

\* The legislators that have a ballot in a newly fetched vote.
TouchedByNewVotes ==
    {m \in 1..NMps : \E vote_id \in FetchedNewVotes : HasBallotIn(m, vote_id)}

\* Whether doc holds for legislator m the record computed from the detail
\* files vote_details, the newly fetched ones included.
StatsAccountFor(m, doc, vote_details) ==
    /\ doc # NoDoc
    /\ m \in DOMAIN doc.mp_stats
    /\ m \in DOMAIN MpListFromCache
    /\ doc.mp_stats[m] =
           calculate_mp_party_line_stats(
               m, MpListFromCache[m],
               get_votes_for_mp_analysis(m, vote_details, MaxVotesPerMp),
               MpListFromCache)

\* C18 as stated: once the change detector has fetched new votes, the forced
\* analytics pass leaves every legislator who has a ballot in a newly
\* fetched vote with a record that accounts for it.
C18_NewVotesForceAnalytics ==
    [][(Propagating /\ FetchedNewVotes # {})
           => \A m \in TouchedByNewVotes :
                  StatsAccountFor(m, sy_party_line', sy_vote_details)]_vars

\* C18: New votes force analytics - once the change detector has fetched new
\* votes and a roster artifact exists, the forced pass recomputes, whether
\* or not the result artifact is fresh, the record of every legislator who
\* has a ballot in a newly fetched vote; without a roster it changes nothing.
C18_ForcedWhenRosterExists ==
    [][(Propagating /\ FetchedNewVotes # {})
           => IF sy_politicians.exists
              THEN \A m \in TouchedByNewVotes :
                       StatsAccountFor(m, sy_party_line', sy_vote_details)
              ELSE sy_party_line' = sy_party_line]_vars

\* The forced pass has just replaced a result artifact that was still fresh
\* by one that accounts for the newly fetched votes.
C18_Witness ==
    /\ sy_pc = "politicians"
    /\ FetchedNewVotes # {}
    /\ TouchedByNewVotes # {}
    /\ sy_snapshot[6] # NoDoc
    /\ sy_party_line # sy_snapshot[6]
    /\ sy_ticks = 0
    /\ \A m \in TouchedByNewVotes : StatsAccountFor(m, sy_party_line, sy_vote_details)

\* The analytics phase of a run completes.
AnalyticsPhase == sy_pc = "party_line" /\ sy_pc' # "party_line"

\* C19: Incremental mode ends with a forced analytics pass - the analytics
\* phase of a run in mode 'incremental' leaves the party-line result
\* artifact that a forced run of the analytics engine over the vote detail
\* files produces, whether or not the artifact has expired.
C19_IncrementalForcedAnalytics ==
    [][(sy_mode = "incremental" /\ AnalyticsPhase)
           => sy_party_line' = PartyLineAfter(TRUE, sy_vote_details).file]_vars

\* A run in mode 'full' or 'party-line' is under way.
Rebuilding == sy_mode \in {"full", "party-line"}

\* The freshness checks are ignored in modes 'full' and 'party-line': the
\* voting-record phase rewrites the record of every legislator of the roster
\* who has a ballot in the corpus, and the analytics phase is never skipped
\* (with a roster it stamps the result artifact with a new expiry).
FullModeIgnoresFreshness ==
    [][/\ (sy_mode = "full" /\ sy_pc = "mp_votes" /\ sy_pc' # "mp_votes"
              /\ sy_politicians.exists)
              => \A m \in DOMAIN sy_politicians.data :
                     build_mp_votes_from_cache(m, sy_vote_details) # <<>>
                         => sy_mp_votes'[m] =
                                save_cache_data(
                                    build_mp_votes_from_cache(m, sy_vote_details), sy_now)
       /\ (Rebuilding /\ AnalyticsPhase /\ sy_politicians.exists
              /\ sy_party_line' # NoDoc)
              => sy_party_line_expires' = sy_now + PARTY_LINE_CACHE_DURATION]_vars

\* C20: Full mode rebuilds everything - in modes 'full' and 'party-line' the
\* analytics phase leaves the party-line result artifact that a run of the
\* engine from scratch over the vote detail files produces: every record is
\* recomputed from the corpus, none carried over from the existing artifact.
C20_FullModeRecomputesStats ==
    [][(Rebuilding /\ AnalyticsPhase)
           => sy_party_line' = PartyLineAfter(TRUE, sy_vote_details).file]_vars

(***************************************************************************)
(* SpecFresh: one cache file of the synchroniser, written by its phase and *)
(* by others, checked by is_cache_expired at the instants around its       *)
(* expiry and read by the serving layer                                    *)
(***************************************************************************)
\* Bounds: clock steps and outside writes, and runs of the phase.
MaxFrEvents == 3
MaxFrRuns == 2

\* What a writer other than save_cache_data can leave in the file: a dump
\* cut short, or content of another shape.
MalformedKinds == FileKinds \ {"missing", "envelope"}

\* The instant at which the file stops being fresh for is_cache_expired or
\* for is_cache_valid.
FrDeadline ==
    IF fr_file.kind = "envelope" THEN fr_file.expires
    ELSE fr_file.mtime + DurationOf(fr_type)

FreshInit ==
    /\ ToolsIdle
    /\ StatsIdle /\ LockIdle /\ ResumeIdle /\ SyncIdle /\ MpIdle
    /\ fr_file = MissingFile
    /\ fr_type \in DOMAIN CACHE_DURATIONS
    /\ fr_now = 0 /\ fr_events = 0 /\ fr_runs = 0 /\ fr_force_full = FALSE
    /\ fr_expired = "" /\ fr_valid = FALSE /\ fr_api_calls = 0 /\ fr_exit = 0
    /\ fr_save = "none" /\ fr_errors = <<>> /\ fr_summary = FALSE

\* Time passes, up to the instant before, at, or after the deadline.
ClockAdvance(t) ==
    /\ FreshFrame
    /\ fr_events < MaxFrEvents
    /\ t > fr_now
    /\ fr_now' = t
    /\ fr_events' = fr_events + 1
    /\ UNCHANGED <<fr_file, fr_type, fr_runs, fr_force_full, fr_expired, fr_valid,
                   fr_api_calls, fr_exit, fr_save, fr_errors, fr_summary>>

\* The file is replaced by content that is not a well-formed envelope.
OutsideWrite(kind) ==
    /\ FreshFrame
    /\ fr_events < MaxFrEvents
    /\ fr_file' = [kind |-> kind, expires |-> 0, mtime |-> fr_now]
    /\ fr_events' = fr_events + 1
    /\ UNCHANGED <<fr_type, fr_now, fr_runs, fr_force_full, fr_expired, fr_valid,
                   fr_api_calls, fr_exit, fr_save, fr_errors, fr_summary>>

\* What can happen to a phase that rebuilds its file: all goes well, the
\* upstream request fails, or the write of the file fails. The legislator's
\* voting record is built from the detail files, without a request.
PhaseResults(cache_type) ==
    IF cache_type = "mp_votes" THEN {"ok", "save_failed"}
    ELSE {"ok", "request_failed", "save_failed"}

\* The upstream requests of a phase that rebuilds its file.
PhaseRequests(cache_type) == IF cache_type = "mp_votes" THEN 0 ELSE 1

\* The entries a phase appends to self.stats['errors']: api_request (line
\* 263) and save_cache_data (line 248) append one; the handler around the
\* write of a legislator's voting record (lines 1137-1138) only logs.
PhaseErrors(cache_type, result) ==
    IF result = "request_failed" THEN <<"API">>
    ELSE IF result = "save_failed" /\ cache_type # "mp_votes" THEN <<"Save">>
    ELSE <<>>

\* main() running the phase of the file (update_politicians_cache and its
\* like, or update_mp_voting_records for one legislator) and then
\* save_statistics: is_cache_expired, then nothing, or the request and the
\* write; an exception leaving is_cache_expired leaves the phase and the
\* mode before save_statistics, and main() re-raises it (exit status 1).
RunFreshPhase(force_full, result) ==
    /\ FreshFrame
    /\ fr_runs < MaxFrRuns
    /\ result \in PhaseResults(fr_type)
    /\ LET outcome == CheckOutcome(fr_file, fr_type, fr_now, force_full)
       IN  /\ fr_expired' = outcome
           /\ fr_api_calls' = IF outcome = "expired" THEN PhaseRequests(fr_type) ELSE 0
           /\ fr_file' = IF outcome = "expired" /\ result = "ok"
                         THEN SavedFile(fr_type, fr_now)
                         ELSE fr_file
           /\ fr_save' = IF outcome # "expired" \/ result = "request_failed" THEN "none"
                         ELSE IF result = "ok" THEN "written" ELSE "failed"
           /\ fr_errors' = IF outcome = "expired" THEN PhaseErrors(fr_type, result)
                           ELSE <<>>
           /\ fr_summary' = (outcome # "raised")
           /\ fr_exit' = IF outcome = "raised" THEN 1 ELSE 0
    /\ fr_force_full' = force_full
    /\ fr_runs' = fr_runs + 1
    /\ UNCHANGED <<fr_type, fr_now, fr_events, fr_valid>>

\* The serving layer loads the file and asks is_cache_valid.
ServeCheck ==
    /\ FreshFrame
    /\ fr_file.kind \in {"missing", "envelope"}
    /\ fr_valid' = is_cache_valid(LoadedEntry(fr_file), fr_now)
    /\ fr_valid' # fr_valid
    /\ UNCHANGED <<fr_file, fr_type, fr_now, fr_events, fr_runs, fr_force_full,
                   fr_expired, fr_api_calls, fr_exit, fr_save, fr_errors, fr_summary>>

FreshNext ==
    \/ \E d \in {-1, 0, 1} : ClockAdvance(FrDeadline + d)
    \/ \E kind \in MalformedKinds : OutsideWrite(kind)
    \/ \E force_full \in BOOLEAN :
          \E result \in {"ok", "request_failed", "save_failed"} :
              RunFreshPhase(force_full, result)
    \/ ServeCheck

SpecFresh == FreshInit /\ [][FreshNext]_vars

(***************************************************************************)
(* Properties of the freshness checks, the exit status and the statistics  *)
(***************************************************************************)
\* An envelope that exists and whose expiry lies in the future.
Unexpired(file) == file.exists /\ sy_now < file.expires

\* The phase at position pc completes.
PhaseStep(pc) == sy_pc = pc /\ sy_pc' # pc

\* C21: Auto mode skips fresh phases and force defeats freshness - without
\* the force flag a phase whose artifact exists and has not expired issues
\* no upstream request and leaves its artifact unchanged; with the force
\* flag every artifact is reported expired and its phase requests it again.
C21_FreshSkippedForceDefeats ==
    [][/\ (~sy_force_full /\ PhaseStep("politicians") /\ Unexpired(sy_politicians))
              => sy_politicians' = sy_politicians /\ sy_api_calls' = sy_api_calls
       /\ (~sy_force_full /\ PhaseStep("votes") /\ Unexpired(sy_votes_cache))
              => sy_votes_cache' = sy_votes_cache /\ sy_api_calls' = sy_api_calls
       /\ (~sy_force_full /\ PhaseStep("bills") /\ Unexpired(sy_bills_cache))
              => /\ sy_bills_cache' = sy_bills_cache /\ sy_bills_index' = sy_bills_index
                 /\ sy_api_calls' = sy_api_calls
       /\ (~sy_force_full /\ PhaseStep("mp_votes"))
              => /\ \A m \in DOMAIN sy_mp_votes :
                        Unexpired(sy_mp_votes[m]) => sy_mp_votes'[m] = sy_mp_votes[m]
                 /\ sy_api_calls' = sy_api_calls
       /\ (~sy_force_full /\ PhaseStep("party_line")
              /\ sy_party_line # NoDoc /\ sy_now < sy_party_line_expires)
              => /\ sy_party_line' = sy_party_line
                 /\ sy_party_line_expires' = sy_party_line_expires
                 /\ sy_api_calls' = sy_api_calls
       /\ sy_force_full
              => /\ is_cache_expired(sy_politicians, sy_now, sy_force_full)
                 /\ is_cache_expired(sy_votes_cache, sy_now, sy_force_full)
                 /\ is_cache_expired(sy_bills_cache, sy_now, sy_force_full)
                 /\ \A m \in DOMAIN sy_mp_votes :
                        is_cache_expired(sy_mp_votes[m], sy_now, sy_force_full)
                 /\ \A pc \in {"politicians", "votes", "bills"} :
                        PhaseStep(pc) => sy_api_calls' = sy_api_calls + 1]_vars

\* An auto run has gone through all its phases over fresh artifacts: its
\* only requests are the two vote lists of the detector and the detail sync.
C21_Witness ==
    /\ sy_mode = "auto" /\ ~sy_force_full
    /\ sy_pc = "statistics"
    /\ sy_api_calls = 2
    /\ Unexpired(sy_politicians) /\ Unexpired(sy_votes_cache) /\ Unexpired(sy_bills_cache)
    /\ \E m \in DOMAIN sy_mp_votes : Unexpired(sy_mp_votes[m])
    /\ sy_party_line # NoDoc /\ sy_now < sy_party_line_expires
    /\ sy_party_line = sy_snapshot[6]

\* A run of the file's phase takes place.
FreshRun == fr_runs' = fr_runs + 1

\* C22: Freshness boundary - a file saved at time t with type T carries the
\* expiry t + duration(T); without force the synchroniser treats an envelope
\* as fresh if and only if now < expiry, so not at now = expiry; and
\* is_cache_expired and the serving layer's is_cache_valid agree.
C22_FreshnessBoundary ==
    [][FreshRun =>
          /\ (fr_file' # fr_file)
                => /\ fr_file'.kind = "envelope"
                   /\ fr_file'.expires = fr_now + DurationOf(fr_type)
          /\ (fr_file.kind = "envelope" /\ ~fr_force_full')
                => /\ (fr_expired' = "fresh") <=> (fr_now < fr_file.expires)
                   /\ (fr_expired' = "fresh")
                          <=> is_cache_valid(LoadedEntry(fr_file), fr_now)]_vars

\* The same with the boundary instant left out: everywhere but at
\* now = expiry the two layers agree with each other and with now < expiry.
FreshnessOffBoundary ==
    [][FreshRun =>
          /\ (fr_file' # fr_file)
                => /\ fr_file'.kind = "envelope"
                   /\ fr_file'.expires = fr_now + DurationOf(fr_type)
          /\ (fr_file.kind = "envelope" /\ ~fr_force_full' /\ fr_now # fr_file.expires)
                => /\ (fr_expired' = "fresh") <=> (fr_now < fr_file.expires)
                   /\ (fr_expired' = "fresh")
                          <=> is_cache_valid(LoadedEntry(fr_file), fr_now)]_vars

\* C23: Malformed artifact equals missing artifact - when the file is not a
\* well-formed envelope the freshness check answers expired, as it does for
\* a missing file, no exception leaves it, and the phase requests the data
\* and, when the request succeeds, rewrites the file.
C23_MalformedTreatedAsMissing ==
    [][(FreshRun /\ fr_file.kind \in MalformedKinds)
           => /\ fr_expired' = CheckOutcome(MissingFile, fr_type, fr_now, fr_force_full')
              /\ fr_expired' = "expired"
              /\ fr_exit' = 0
              /\ fr_api_calls' = PhaseRequests(fr_type)
              /\ fr_file' \in {fr_file, SavedFile(fr_type, fr_now)}]_vars

\* What the check does with a malformed file: text that does not parse is
\* fresh until its modification time is older than the type's duration; any
\* other malformed content raises unless the run is forced.
MalformedAsCoded ==
    [][(FreshRun /\ fr_file.kind \in MalformedKinds /\ ~fr_force_full')
           => IF fr_file.kind = "not_json"
              THEN (fr_expired' = "expired") <=>
                       (fr_now - fr_file.mtime > DurationOf(fr_type))
              ELSE fr_expired' = "raised" /\ fr_exit' = 1 /\ fr_file' = fr_file]_vars

\* C24: Exit status reflects only fatal conditions - a process that has
\* acquired the lock ends with status zero whatever happened in its phases,
\* and a process that ends with a non-zero status met lock contention or
\* could not create the lock record.
C24_ExitStatusOnlyFatal ==
    \A p \in Procs :
        lk_exit[p] # NotExited
            => /\ (lk_acquire[p] = "acquired" => lk_exit[p] = 0)
               /\ (lk_exit[p] # 0 => lk_acquire[p] \in {"contended", "write_failed"})

\* C25: Statistics summary always emitted - every run that got past the lock
\* writes the statistics summary before it exits, whatever failed in its
\* phase; and a failed write of the phase's file is recorded in the
\* summary's error list while the run goes on to the summary.
C25_SummaryAlwaysWritten ==
    [][FreshRun =>
          /\ fr_summary'
          /\ (fr_save' = "failed") => (\E i \in DOMAIN fr_errors' : fr_errors'[i] = "Save")]_vars

\* What the code does: the summary is written unless the freshness check
\* raised; a failed request is always in the error list; a failed write is
\* in it for the files written by save_cache_data, not for a legislator's
\* voting record.
SummaryAsCoded ==
    [][FreshRun =>
          /\ fr_summary' <=> (fr_expired' # "raised")
          /\ (fr_save' = "failed" /\ fr_type # "mp_votes") => fr_errors' = <<"Save">>
          /\ (fr_save' = "failed" /\ fr_type = "mp_votes") => fr_errors' = <<>>
          /\ (fr_save' = "failed") => fr_summary' /\ fr_exit' = 0]_vars

\* The upstream votes of the list just received that are dated later than
\* every vote of the recent-votes cache.
LaterThanEveryRecentVote ==
    {VoteIdOfUrl(sy_api_votes'[k].url) : k \in
        {i \in DOMAIN sy_api_votes' :
            \A j \in DOMAIN RecentVotes : sy_api_votes'[i].date > RecentVotes[j].date}}

\* The identifier diff of check_for_new_votes came out empty over a cache
\* that holds votes.
DateFallback == CheckDetected /\ NotInRecentVotes = {} /\ RecentVotes # <<>>

\* C26: Date-watermark fallback - when the identifier diff is empty, the
\* votes check_for_new_votes reports as new are exactly the upstream votes
\* dated strictly later than the most recent date found anywhere in the
\* recent-votes cache: all of those, and none dated at or before it.
C26_DateWatermark ==
    [][DateFallback => SeqToSet(sy_new_vote_ids') = LaterThanEveryRecentVote]_vars

\* What the fallback computes: the watermark is the most recent date among
\* the first DateWindow votes of the cache.
DateWatermarkOfWindow ==
    [][DateFallback => SeqToSet(sy_new_vote_ids') = LaterThanRecentVotes]_vars

\* The number of entries a voting record holds for a vote.
EntriesFor(vote_id, record) ==
    IF record.exists
    THEN Cardinality({i \in DOMAIN record.data : VoteIdOfUrl(record.data[i].url) = vote_id})
    ELSE 0

\* The detail file of a vote among vote_details: a sequence of at most one.
DetailFileOf(vote_id, vote_details) ==
    LET Is(f) == f.vote_id = vote_id IN SelectSeq(vote_details, Is)

\* The newly detected votes whose fetch failed and whose detail file this
\* run has not written: it is absent or as it was when the run started.
NotWrittenThisRun ==
    {vote_id \in sy_failed \cap SeqToSet(sy_new_vote_ids) :
        DetailFileOf(vote_id, sy_vote_details) = DetailFileOf(vote_id, sy_snapshot[3])}

\* An entry for a vote enters a voting record only in a step before which
\* the vote's detail file is on disk.
EntersAfterPersistence ==
    \A m \in DOMAIN sy_mp_votes : \A i \in DOMAIN sy_universe :
        LET vote_id == VoteIdOfUrl(sy_universe[i].vote.url)
        IN  EntriesFor(vote_id, sy_mp_votes'[m]) > EntriesFor(vote_id, sy_mp_votes[m])
                => vote_id \in DetailIds(sy_vote_details)

\* C27: Propagation strictly after persistence - a vote is added to a
\* legislator's voting record only after its detail file has been written,
\* and a newly detected vote whose detail file this run did not write
\* (its fetch failed) is added to no legislator's record.
C27_PropagationAfterPersistence ==
    [][/\ EntersAfterPersistence
       /\ Propagating =>
              \A m \in DOMAIN sy_mp_votes : \A vote_id \in NotWrittenThisRun :
                  EntriesFor(vote_id, sy_mp_votes'[m]) = EntriesFor(vote_id, sy_mp_votes[m])]_vars

\* C27 (as the code has it): a vote is added to a legislator's voting record
\* only after its detail file has been written, and a newly detected vote
\* that has no detail file when the detector propagates is added to no
\* legislator's record; a detail file left by an earlier run counts.
C27_NoDetailNoEntry ==
    [][/\ EntersAfterPersistence
       /\ Propagating =>
              \A m \in DOMAIN sy_mp_votes :
                  \A vote_id \in SeqToSet(sy_new_vote_ids) \ DetailIds(sy_vote_details) :
                      EntriesFor(vote_id, sy_mp_votes'[m]) = EntriesFor(vote_id, sy_mp_votes[m])]_vars

\* The detector has propagated two new votes: the fetch of one failed and
\* left no detail file, and that vote is in no record; the other was fetched
\* and has entered a record that existed.
C27_Witness ==
    /\ sy_pc = "politicians" /\ sy_successful > 0
    /\ \E m \in DOMAIN sy_mp_votes :
           /\ sy_snapshot[4][m].exists
           /\ \E v \in (SeqToSet(sy_new_vote_ids) \cap sy_failed) \ DetailIds(sy_vote_details) :
                  \A k \in DOMAIN sy_mp_votes : EntriesFor(v, sy_mp_votes[k]) = 0
           /\ \E w \in FetchedNewVotes :
                  EntriesFor(w, sy_mp_votes[m]) > EntriesFor(w, sy_snapshot[4][m])

\* Whether a list of votes is ordered by date, most recent first.
OrderedByDateDescending(votes) ==
    \A i \in DOMAIN votes : \A j \in DOMAIN votes : i < j => votes[i].date >= votes[j].date

\* C28: Incremental propagation keeps records sorted and bounded - after the
\* change detector has folded the new votes into the existing voting
\* records, every record is ordered by date descending and holds at most
\* MaxMpVotes entries.
C28_PropagationKeepsOrder ==
    [][Propagating =>
          \A m \in DOMAIN sy_mp_votes :
              sy_mp_votes'[m].exists
                  => /\ OrderedByDateDescending(sy_mp_votes'[m].data)
                     /\ Len(sy_mp_votes'[m].data) <= MaxMpVotes]_vars

\* What the fold does: the entries of the new votes in the iteration order
\* of the set, then the entries the record had, cut to MaxMpVotes.
PropagationPrepends ==
    [][Propagating =>
          \A m \in DOMAIN sy_mp_votes :
              (sy_mp_votes'[m].exists /\ sy_mp_votes'[m] # sy_mp_votes[m] /\ sy_successful > 0)
                  => /\ Len(sy_mp_votes'[m].data) <= MaxMpVotes
                     /\ \E n \in 1..Len(sy_new_vote_ids) :
                            /\ Len(sy_mp_votes'[m].data) = n + Len(sy_mp_votes[m].data)
                            /\ \A i \in DOMAIN sy_mp_votes[m].data :
                                   sy_mp_votes'[m].data[n + i] = sy_mp_votes[m].data[i]]_vars

(***************************************************************************)
(* Properties of the analytics engine's resume and checkpoints             *)
(***************************************************************************)
\* The force flag of the run in progress.
CurrentRunForced == rs_history[Len(rs_history)].force

\* calculate_all_party_line_stats starts with this force flag.
RunStarts(force_recalculate) ==
    /\ rs_pc = "idle" /\ rs_pc' = "loop"
    /\ rs_history'[Len(rs_history')].force = force_recalculate

\* The loop passes over legislator m.
LoopPasses(m) == rs_pc = "loop" /\ rs_idx = m /\ rs_idx' = m + 1

\* C29: Resume skips checkpointed legislators - a run started without force
\* over an existing result document takes the legislators of its mp_stats as
\* already processed; for each of them the loop computes and persists
\* nothing, and its record in the document stays what it was, up to and
\* including the final document.
C29_ResumeSkipsCheckpointed ==
    [][/\ (RunStarts(FALSE) /\ rs_file # NoDoc)
              => rs_already_processed' = DOMAIN rs_file.mp_stats
       /\ (rs_pc = "loop" /\ ~CurrentRunForced)
              => \A m \in rs_already_processed :
                     /\ LoopPasses(m) => /\ rs_file' = rs_file
                                         /\ rs_existing_data' = rs_existing_data
                                         /\ rs_all_sessions' = rs_all_sessions
                     /\ rs_file' # NoDoc
                     /\ m \in DOMAIN rs_file'.mp_stats
                     /\ rs_file'.mp_stats[m] = rs_file.mp_stats[m]]_vars

\* A run without force that follows an interrupted one is at the end of its
\* loop: it has passed over a legislator the interrupted run had persisted
\* and has computed and persisted another one itself.
C29_Witness ==
    /\ Len(rs_history) = 2
    /\ rs_history[1].ended = "interrupted"
    /\ rs_pc = "loop" /\ ~CurrentRunForced
    /\ rs_idx = NMps + 1
    /\ rs_already_processed # {}
    /\ rs_file # NoDoc
    /\ DOMAIN rs_file.mp_stats \ rs_already_processed # {}

\* The legislators that have a record in the persisted document.
PersistedMps(file) == IF file = NoDoc THEN {} ELSE DOMAIN file.mp_stats

\* The loop computes the statistics of the legislator it is at.
Computes ==
    /\ rs_pc = "loop" /\ rs_pc' = "loop" /\ rs_idx \in DOMAIN rs_all_mps
    /\ rs_idx' = rs_idx + 1
    /\ ~SkipsMp(RsRun, rs_idx, rs_vote_details)

\* Every record of the legislators in keep is in the document after the
\* step, unchanged unless it is the record just computed.
Keeps(keep) ==
    \A m \in keep :
        /\ m \in PersistedMps(rs_file')
        /\ (m # rs_idx \/ ~Computes) => rs_file'.mp_stats[m] = rs_file.mp_stats[m]

\* The record just computed is in the document after the step.
Checkpointed ==
    Computes =>
        /\ rs_idx \in PersistedMps(rs_file')
        /\ rs_file'.mp_stats[rs_idx] =
               calculate_mp_party_line_stats(
                   rs_idx, rs_all_mps[rs_idx],
                   get_votes_for_mp_analysis(rs_idx, rs_vote_details, MaxVotesPerMp),
                   rs_all_mps)

\* C30: Checkpoint after every legislator - right after a legislator's
\* statistics are computed the persisted document holds that record, and
\* within a run the set of legislators in the persisted document never
\* shrinks: no step of a run removes a record from it.
C30_CheckpointNeverShrinks ==
    [][rs_pc = "loop" => Checkpointed /\ Keeps(PersistedMps(rs_file))]_vars

\* C30 (as the code has it): right after a legislator's statistics are
\* computed the persisted document holds that record together with the
\* records persisted earlier in the run and, when the run is not forced,
\* those the document held when the run started; the first checkpoint of a
\* forced run replaces the document it finds, and from then on no step of
\* the run removes a record.
C30_CheckpointsAccumulate ==
    [][rs_pc = "loop" =>
          /\ Checkpointed
          /\ Keeps(IF CurrentRunForced /\ rs_existing_data = NoDoc THEN {}
                   ELSE PersistedMps(rs_file))]_vars

\* A forced run over an existing document is at the end of its loop, having
\* computed and persisted a record for every legislator of the roster.
C30_Witness ==
    /\ Len(rs_history) = 2
    /\ rs_history[1].ended = "completed"
    /\ rs_pc = "loop" /\ CurrentRunForced
    /\ rs_idx = NMps + 1
    /\ rs_existing_data = rs_file
    /\ PersistedMps(rs_file) = DOMAIN rs_all_mps

(***************************************************************************)
(* SpecBreaks: calculate_mp_party_line_stats over the votes                 *)
(* get_votes_for_mp_analysis finds for a legislator who left the party's    *)
(* majority in about MaxBreaksKept votes of one session                     *)
(***************************************************************************)
\* The detail file of vote k of session 45-1, dated k: the legislator voted
\* Yes, unless loyal, against two colleagues' No.
BreaksVote(k, loyal) ==
    [vote_id |-> <<"45-1", k>>, vote |-> [session |-> "45-1", date |-> k],
     ballots |-> <<[politician_url |-> PoliticianUrl(1), party |-> "",
                    ballot |-> IF loyal THEN "No" ELSE "Yes"],
                   [politician_url |-> PoliticianUrl(2), party |-> "", ballot |-> "No"],
                   [politician_url |-> PoliticianUrl(3), party |-> "Liberal",
                    ballot |-> "No"]>>]

\* The detail files of n votes in the order they were written: by rising
\* vote number from vote `first` around, or (backfill) by falling number.
BreaksCorpus(n, first, backfill, loyal_vote) ==
    [i \in 1..n |->
        LET k == ((first + i - 2) % n) + 1
        IN  BreaksVote(IF backfill THEN n + 1 - k ELSE k,
                       (IF backfill THEN n + 1 - k ELSE k) = loyal_vote)]

BreaksInit ==
    /\ ToolsIdle
    /\ StatsIdle /\ LockIdle /\ ResumeIdle /\ SyncIdle /\ FreshIdle
    /\ ms_mp_slug = 1
    /\ ms_mp_party = "Liberal"
    /\ ms_lookup = [s \in LookupSlugs |-> "Liberal"]
    /\ \E n \in {MaxBreaksKept, MaxBreaksKept + 1}, first \in 1..(MaxBreaksKept + 1),
          backfill \in BOOLEAN, loyal_vote \in 0..(MaxBreaksKept + 1) :
           /\ first <= n
           /\ ms_votes_data =
                  get_votes_for_mp_analysis(ms_mp_slug,
                                            BreaksCorpus(n, first, backfill, loyal_vote),
                                            MaxVotesPerMp)
    /\ ms_idx = 1
    /\ ms_acc = [party_line_votes |-> 0, total_eligible_votes |-> 0,
                 party_discipline_breaks |-> <<>>, party_loyalty_by_session |-> EmptyMap]
    /\ ms_result = NoResult
    /\ ms_doc = NoDoc

SpecBreaks == BreaksInit /\ [][MpStatsNext]_vars

\* The votes of votes_data in which the legislator left the party's majority.
BreakVotes ==
    {k \in DOMAIN ms_votes_data :
        /\ MsEligible(k)
        /\ MsOwnChoice(k) # MsMajority(k)}

\* The breaks with the latest vote dates, at most MaxBreaksKept of them.
LatestBreaks ==
    {k \in BreakVotes :
        Cardinality({j \in BreakVotes :
                        ms_votes_data[j].vote.date > ms_votes_data[k].vote.date})
            < MaxBreaksKept}

KeptBreakIds ==
    {ms_result.party_discipline_breaks[i].vote_id :
        i \in DOMAIN ms_result.party_discipline_breaks}

\* C31: Capped break list holds the most recent breaks - once the record is
\* returned, party_discipline_breaks has min(MaxBreaksKept, breaks) entries,
\* and they are the breaks with the latest vote dates (all of them when
\* there are MaxBreaksKept or fewer).
C31_MostRecentBreaksKept ==
    ms_result # NoResult =>
        /\ Len(ms_result.party_discipline_breaks) = Cardinality(LatestBreaks)
        /\ KeptBreakIds = {ms_votes_data[k].vote_id : k \in LatestBreaks}

\* What the slice [:10] keeps: the first MaxBreaksKept breaks in the order
\* of votes_data, that is newest detail file first.
BreaksKeptInFileOrder ==
    ms_result # NoResult =>
        /\ Len(ms_result.party_discipline_breaks)
               = Cardinality({k \in BreakVotes :
                                 Cardinality({j \in BreakVotes : j < k}) < MaxBreaksKept})
        /\ KeptBreakIds
               = {ms_votes_data[k].vote_id :
                     k \in {k \in BreakVotes :
                               Cardinality({j \in BreakVotes : j < k}) < MaxBreaksKept}}

(***************************************************************************)
(* Properties of the majority position of calculate_party_position         *)
(***************************************************************************)
\* The number of the party's Yes/No ballots that hold the returned position.
StatsHolders ==
    IF st_result.majority_position = "Yes" THEN StatsYes
    ELSE IF st_result.majority_position = "No" THEN StatsNo
    ELSE 0

C33_CompleteBallotSet ==
    \A i \in DOMAIN sy_vote_details :
        sy_vote_details[i].ballots = UpstreamVoteOf(sy_vote_details[i].vote_id).ballots

\* A file written by a fetch whose two requests succeeded holds the ballots
\* of the one page requested; one written after a failed ballots request
\* holds none.
BallotsOfOnePageOrNone ==
    \A i \in DOMAIN sy_vote_details :
        sy_vote_details[i].ballots
            \in {<<>>, FirstN(UpstreamVoteOf(sy_vote_details[i].vote_id).ballots,
                              BallotsLimit)}

(***************************************************************************)
(* SpecFetchers: one run of cache_historical_sessions.py or of             *)
(* cache_missing_44_1_votes.py, with the signal handler                    *)
(***************************************************************************)
\* Bound: votes missing from the cache in one session.
MaxFetchVotes == 2

\* save_progress inside the loop: every 20 votes (historical sessions),
\* every 10 votes (missing votes).
SaveEvery(script) == IF script = "historical" THEN 20 ELSE 10

\* 'if i > 10 and not_found > 5: break' of cache_session_votes.
NotFoundAfter == 10
NotFoundLimit == 5

\* The sessions main works through: the first two of SESSION_CONFIGS by
\* priority, or the one session of the missing-vote fetcher.
FetcherSessions(script) == IF script = "historical" THEN <<"45-1", "43-2">> ELSE <<"44-1">>

\* The results of fetch_and_cache_vote.
FetchResults(script) ==
    IF script = "historical" THEN {"success", "failed", "not_found"} ELSE {"success", "failed"}

\* PROGRESS_FILE when it does not exist.
NoProgress == [exists |-> FALSE, completed |-> <<>>]

\* remaining_votes: the votes of 1..MaxFetchVotes without a detail file, in
\* rising order (none of them completed by an earlier run).
RemainingVotes == {<<>>, <<1>>, <<2>>} \cup {[k \in 1..n |-> k] : n \in 2..MaxFetchVotes}

\* The mutant of ContinuesLoop below: the flag is not looked at.
ContinuesLoop_Deaf(shutdown_requested, i, remaining_votes) == i <= Len(remaining_votes)

\* The head of the per-vote loop: another vote is fetched when there is one
\* and no shutdown was requested.
ContinuesLoop(shutdown_requested, i, remaining_votes) ==
    ~shutdown_requested /\ i <= Len(remaining_votes)

FetchFrame == UNCHANGED <<statsVars, lockVars, resumeVars, syncVars, mpVars, freshVars,
                          poolVars, keyVars>>

FetchersInit ==
    /\ StatsIdle /\ LockIdle /\ ResumeIdle /\ SyncIdle /\ MpIdle /\ FreshIdle
    /\ PoolIdle /\ KeyIdle
    /\ hf_script \in {"historical", "missing"}
    /\ hf_sessions = FetcherSessions(hf_script)
    /\ hf_pc = "main"
    /\ hf_shutdown = FALSE
    /\ hf_remaining = <<>> /\ hf_i = 0 /\ hf_not_found = 0
    /\ hf_completed = [k \in DOMAIN FetcherSessions(hf_script) |-> <<>>]
    /\ hf_file = NoProgress
    /\ hf_written = {}

\* signal_handler: shutdown_requested = True.
Interrupt ==
    /\ hf_pc \notin {"idle", "exit"}
    /\ ~hf_shutdown
    /\ hf_shutdown' = TRUE
    /\ UNCHANGED <<hf_script, hf_sessions, hf_pc, hf_remaining, hf_i, hf_completed,
                   hf_file, hf_written, hf_not_found>>
    /\ FetchFrame

\* main up to the per-vote loop. Historical sessions: the loop over the
\* sessions stops on the flag or enters cache_session_votes, which returns
\* at once on the flag or without remaining votes. Missing votes: main
\* returns without remaining votes.
EnterSession(remaining_votes) ==
    /\ hf_pc = "main"
    /\ IF hf_script = "historical"
       THEN IF hf_sessions = <<>> \/ hf_shutdown
            THEN hf_pc' = "exit" /\ UNCHANGED <<hf_remaining, hf_i, hf_not_found>>
            ELSE /\ hf_remaining' = remaining_votes
                 /\ hf_i' = 1 /\ hf_not_found' = 0
                 /\ hf_pc' = IF remaining_votes = <<>> THEN "save" ELSE "loop"
       ELSE IF remaining_votes = <<>>
            THEN hf_pc' = "exit" /\ UNCHANGED <<hf_remaining, hf_i, hf_not_found>>
            ELSE /\ hf_remaining' = remaining_votes
                 /\ hf_i' = 1 /\ hf_not_found' = 0
                 /\ hf_pc' = "loop"
    /\ UNCHANGED <<hf_script, hf_sessions, hf_shutdown, hf_completed, hf_file, hf_written>>
    /\ FetchFrame

\* The head of the per-vote loop: break on the flag or at the end of
\* remaining_votes, else fetch_and_cache_vote is called. (The test of the
\* flag on entry of cache_session_votes leads to the same save in main.)
LoopHead ==
    /\ hf_pc = "loop"
    /\ hf_pc' = IF ContinuesLoop(hf_shutdown, hf_i, hf_remaining) THEN "fetching" ELSE "save"
    /\ UNCHANGED <<hf_script, hf_sessions, hf_shutdown, hf_remaining, hf_i, hf_completed,
                   hf_file, hf_written, hf_not_found>>
    /\ FetchFrame

\* fetch_and_cache_vote returns and the rest of the iteration runs: the
\* detail file and the entry of progress['completed'] on success, the break
\* after repeated 404s, the save of the progress every SaveEvery votes.
CompleteFetch(result) ==
    /\ hf_pc = "fetching"
    /\ result \in FetchResults(hf_script)
    /\ LET session == Head(hf_sessions)
           k == Len(FetcherSessions(hf_script)) - Len(hf_sessions) + 1
           vote_num == hf_remaining[hf_i]
           completed == IF result = "success"
                        THEN [hf_completed EXCEPT ![k] = Append(@, vote_num)]
                        ELSE hf_completed
           not_found == hf_not_found + (IF result = "not_found" THEN 1 ELSE 0)
           breaks == /\ result = "not_found"
                     /\ hf_i > NotFoundAfter /\ not_found > NotFoundLimit
       IN  /\ hf_written' = IF result = "success" THEN hf_written \cup {<<session, vote_num>>}
                            ELSE hf_written
           /\ hf_completed' = completed
           /\ hf_not_found' = not_found
           /\ hf_file' = IF ~breaks /\ hf_i % SaveEvery(hf_script) = 0
                         THEN [exists |-> TRUE, completed |-> completed]
                         ELSE hf_file
           /\ hf_i' = IF breaks THEN hf_i ELSE hf_i + 1
           /\ hf_pc' = IF breaks THEN "save" ELSE "loop"
    /\ UNCHANGED <<hf_script, hf_sessions, hf_shutdown, hf_remaining>>
    /\ FetchFrame

\* save_progress after the loop: main's save after cache_session_votes
\* returned, then the next session (historical sessions); the final save,
\* then the end of main (missing votes).
SaveProgress ==
    /\ hf_pc = "save"
    /\ hf_file' = [exists |-> TRUE, completed |-> hf_completed]
    /\ hf_sessions' = Tail(hf_sessions)
    /\ hf_pc' = IF hf_script = "historical" THEN "main" ELSE "exit"
    /\ UNCHANGED <<hf_script, hf_shutdown, hf_remaining, hf_i, hf_completed, hf_written,
                   hf_not_found>>
    /\ FetchFrame

FetcherStep ==
    \/ \E remaining_votes \in RemainingVotes : EnterSession(remaining_votes)
    \/ LoopHead
    \/ \E result \in {"success", "failed", "not_found"} : CompleteFetch(result)
    \/ SaveProgress

FetchersNext == Interrupt \/ FetcherStep

\* The script keeps running until main returns; the signal may never come.
SpecFetchers == FetchersInit /\ [][FetchersNext]_vars /\ WF_vars(FetcherStep)

\* The votes the progress file lists as completed.
ListedInProgress ==
    UNION {{<<FetcherSessions(hf_script)[k], hf_file.completed[k][j]>> :
               j \in DOMAIN hf_file.completed[k]} : k \in DOMAIN hf_file.completed}

\* C34: Graceful cancellation in resumable fetch loops - once the shutdown
\* flag is set no further fetch is started, a fetch in progress ends only
\* by completing its iteration, the run then exits, and whenever it exits
\* after its per-vote loop was entered the progress file exists and lists
\* every vote whose detail file this run wrote.
C34_GracefulCancellation ==
    /\ [][hf_shutdown => ~(hf_pc # "fetching" /\ hf_pc' = "fetching")]_vars
    /\ [][(hf_pc = "fetching" /\ hf_pc' # "fetching") =>
              (hf_pc' \in {"loop", "save"} /\ hf_remaining' = hf_remaining)]_vars
    /\ [](hf_shutdown => <>(hf_pc = "exit"))
    /\ []((hf_pc = "exit" /\ hf_shutdown /\ hf_i > 0) =>
              (hf_file.exists /\ hf_written \subseteq ListedInProgress))

\* Interrupted with one of two remaining votes fetched, the run left its
\* loop before the second vote, saved the progress and exited.
C34_Witness ==
    /\ hf_pc = "exit" /\ hf_shutdown
    /\ Len(hf_remaining) = 2 /\ hf_i = 2 /\ Cardinality(hf_written) = 1
    /\ hf_file.exists /\ hf_written \subseteq ListedInProgress

(***************************************************************************)
(* SpecPool: the worker pools of the orchestrator - the batches of         *)
(* _cache_single_vote_details in update_vote_details_incremental and the   *)
(* pool of _fetch_historical_mp in update_historical_mps - with            *)
(* api_request run by the worker threads                                   *)
(***************************************************************************)
\* Bounds: new votes to cache, historical legislators to fetch.
NPoolVotes == 6
NPoolMps == 4

MAX_CONCURRENT_WORKERS == 3

\* ThreadPoolExecutor(max_workers=5) of update_historical_mps.
HistoricalMpWorkers == 5

\* max_workers of the executor of each pool.
max_workers(kind) ==
    IF kind = "vote_details" THEN MAX_CONCURRENT_WORKERS ELSE HistoricalMpWorkers

\* The requests one task makes when none fails: the vote and its ballots,
\* or the one legislator.
RequestsOfTask(kind) == IF kind = "vote_details" THEN 2 ELSE 1

\* The tasks handed to one executor: a batch of batch_size new votes, or
\* every historical legislator at once.
SubmittedAtOnce(kind, todo) ==
    IF kind = "vote_details" THEN (IF todo < batch_size THEN todo ELSE batch_size) ELSE todo

\* The tasks a worker thread is running.
Running(tasks) == {t \in DOMAIN tasks : tasks[t].pc \in {"load", "store", "request"}}

\* The requests in flight.
InFlight(tasks) == {t \in DOMAIN tasks : tasks[t].pc = "request"}

AllDone(tasks) == \A t \in DOMAIN tasks : tasks[t].pc = "done"

PoolFrame == UNCHANGED <<statsVars, lockVars, resumeVars, syncVars, mpVars, freshVars,
                         fetchVars, keyVars>>

PoolInit ==
    /\ StatsIdle /\ LockIdle /\ ResumeIdle /\ SyncIdle /\ MpIdle /\ FreshIdle
    /\ FetchIdle /\ KeyIdle
    /\ \/ pl_kind = "vote_details" /\ pl_todo \in 1..NPoolVotes
       \/ pl_kind = "historical_mps" /\ pl_todo \in 1..NPoolMps
    /\ pl_tasks = <<>>
    /\ pl_api_calls = 0 /\ pl_errors = 0 /\ pl_invocations = 0 /\ pl_failures = 0

\* 'with ThreadPoolExecutor(...) as executor' and the submit loop: entered
\* once the previous 'with' block was left, that is once all its futures
\* are done.
SubmitBatch ==
    /\ pl_todo > 0
    /\ AllDone(pl_tasks)
    /\ pl_tasks' = [t \in 1..SubmittedAtOnce(pl_kind, pl_todo) |->
                       [pc |-> "queued", reg |-> 0, left |-> RequestsOfTask(pl_kind)]]
    /\ pl_todo' = pl_todo - SubmittedAtOnce(pl_kind, pl_todo)
    /\ UNCHANGED <<pl_kind, pl_api_calls, pl_errors, pl_invocations, pl_failures>>
    /\ PoolFrame

\* A free worker thread takes the next work item of the queue and calls
\* api_request.
StartTask(t) ==
    /\ t \in DOMAIN pl_tasks
    /\ pl_tasks[t].pc = "queued"
    /\ \A u \in 1..(t - 1) : pl_tasks[u].pc # "queued"
    /\ Cardinality(Running(pl_tasks)) < max_workers(pl_kind)
    /\ pl_tasks' = [pl_tasks EXCEPT ![t].pc = "load"]
    /\ pl_invocations' = pl_invocations + 1
    /\ UNCHANGED <<pl_kind, pl_todo, pl_api_calls, pl_errors, pl_failures>>
    /\ PoolFrame

\* self.stats['api_calls'] += 1, first half: the thread reads the counter.
LoadCounter(t) ==
    /\ t \in DOMAIN pl_tasks
    /\ pl_tasks[t].pc = "load"
    /\ pl_tasks' = [pl_tasks EXCEPT ![t].pc = "store", ![t].reg = pl_api_calls]
    /\ UNCHANGED <<pl_kind, pl_todo, pl_api_calls, pl_errors, pl_invocations, pl_failures>>
    /\ PoolFrame

\* self.stats['api_calls'] += 1, second half: the thread stores the sum;
\* then requests.get is under way.
StoreCounter(t) ==
    /\ t \in DOMAIN pl_tasks
    /\ pl_tasks[t].pc = "store"
    /\ pl_api_calls' = pl_tasks[t].reg + 1
    /\ pl_tasks' = [pl_tasks EXCEPT ![t].pc = "request", ![t].reg = 0]
    /\ UNCHANGED <<pl_kind, pl_todo, pl_errors, pl_invocations, pl_failures>>
    /\ PoolFrame

\* The request returns: on a failure api_request appends to
\* self.stats['errors'] and returns None. _cache_single_vote_details goes
\* on to the ballots request after the vote request succeeded; otherwise
\* the task is done.
Respond(t, ok) ==
    /\ t \in DOMAIN pl_tasks
    /\ pl_tasks[t].pc = "request"
    /\ pl_errors' = pl_errors + (IF ok THEN 0 ELSE 1)
    /\ pl_failures' = pl_failures + (IF ok THEN 0 ELSE 1)
    /\ IF ok /\ pl_tasks[t].left > 1
       THEN /\ pl_tasks' = [pl_tasks EXCEPT ![t].pc = "load", ![t].left = @ - 1]
            /\ pl_invocations' = pl_invocations + 1
       ELSE /\ pl_tasks' = [pl_tasks EXCEPT ![t].pc = "done", ![t].left = 0]
            /\ UNCHANGED pl_invocations
    /\ UNCHANGED <<pl_kind, pl_todo, pl_api_calls>>
    /\ PoolFrame

PoolNext ==
    \/ SubmitBatch
    \/ \E t \in 1..NPoolVotes : StartTask(t)
    \/ \E t \in 1..NPoolVotes : LoadCounter(t)
    \/ \E t \in 1..NPoolVotes : StoreCounter(t)
    \/ \E t \in 1..NPoolVotes, ok \in BOOLEAN : Respond(t, ok)

SpecPool == PoolInit /\ [][PoolNext]_vars

\* C35: Bounded fetch concurrency - at most 3 requests of a worker pool are
\* in flight at any time, in the vote-detail pool and in the historical
\* roster pool, and a new batch is submitted only when every fetch of the
\* previous batch has completed.
C35_BoundedConcurrency ==
    /\ [](Cardinality(InFlight(pl_tasks)) <= 3)
    /\ [][pl_todo' # pl_todo => AllDone(pl_tasks)]_vars

\* What the executors bound: the requests in flight by their max_workers,
\* 3 for the vote details and 5 for the historical roster; batches follow
\* one another.
ConcurrencyOfExecutors ==
    /\ [](Cardinality(InFlight(pl_tasks)) <= max_workers(pl_kind))
    /\ [](pl_kind = "vote_details" => Cardinality(InFlight(pl_tasks)) <= 3)
    /\ [][pl_todo' # pl_todo => AllDone(pl_tasks)]_vars

\* C39: Run statistics count every request - when the pool has finished,
\* api_calls is the number of calls of api_request and the error list has
\* one entry per failed request, whatever the interleaving of the threads.
C39_StatisticsCountEveryRequest ==
    (pl_kind # "" /\ pl_todo = 0 /\ AllDone(pl_tasks)) =>
        (pl_api_calls = pl_invocations /\ pl_errors = pl_failures)

\* What holds of the counters at any time: one error entry per failed
\* request, and api_calls never above the number of calls.
StatisticsNeverOvercount ==
    pl_errors = pl_failures /\ pl_api_calls <= pl_invocations

(***************************************************************************)
(* SpecBills: auto runs over votes that refer to bills, with a clock       *)
(***************************************************************************)
\* Two votes; the first may refer to bill C-1, the second to C-1 or C-2.
BillsUniverses ==
    {[i \in 1..NSyncVotes |->
         UpstreamVote(i, i, IF i = 1 THEN first ELSE later,
                      [m \in 1..NMps |-> IF m = 1 THEN "Yes" ELSE "No"])] :
        first \in {"", "C-1"}, later \in {"", "C-1", "C-2"}}

BillsInit ==
    /\ ToolsIdle
    /\ StatsIdle /\ LockIdle /\ ResumeIdle /\ MpIdle /\ FreshIdle
    /\ sy_universe \in BillsUniverses
    /\ sy_published = 1 /\ sy_now = 0 /\ sy_ticks = 0
    /\ sy_politicians = NoFile /\ sy_votes_cache = NoFile /\ sy_vote_index = NoFile
    /\ sy_vote_details = <<>> /\ sy_bills_cache = NoFile /\ sy_bills_index = NoFile
    /\ sy_mp_votes = [m \in 1..NMps |-> NoFile]
    /\ sy_party_line = NoDoc /\ sy_party_line_expires = 0
    /\ sy_pc = "idle" /\ sy_mode = "auto" /\ sy_force_full = FALSE
    /\ sy_api_votes = <<>> /\ sy_new_vote_ids = <<>> /\ sy_queue = <<>> /\ sy_batch = {}
    /\ sy_index_data = NoFile /\ sy_successful = 0 /\ sy_fetches = 0 /\ sy_failed = {}
    /\ sy_faults = 0 /\ sy_run_faults = 0 /\ sy_runs = 0 /\ sy_prev = "none"
    /\ sy_idem = FALSE /\ sy_snapshot = <<>> /\ sy_phase_failed = {} /\ sy_api_calls = 0

BillsNext ==
    \/ PublishVote
    \/ Tick(1)
    \/ StartSync("auto")
    \/ \E ok \in ListOutcomes : \E order \in SetOrders(CheckNewIds(ok)) :
           CheckForNewVotes(ok, order)
    \/ \E outcome \in FetchOutcomes : CacheNewVote(outcome)
    \/ PropagateNewVotes
    \/ \E ok \in ListOutcomes : UpdatePoliticians(ok)
    \/ \E ok \in ListOutcomes : UpdateVotesCache(ok)
    \/ \E ok \in ListOutcomes : StartDetailsSync(ok)
    \/ \E vote_id \in sy_batch : \E outcome \in FetchOutcomes : FetchBatchVote(vote_id, outcome)
    \/ SaveVoteIndex
    \/ \E ok \in ListOutcomes : UpdateBills(ok)
    \/ UpdateMpVotingRecords
    \/ UpdatePartyLineStats
    \/ SaveStatistics

SpecBills == BillsInit /\ [][BillsNext]_vars

\* The step of the change detector that follows its loop over the new votes
\* when at least one of them was cached.
PropagatesNewVotes ==
    /\ sy_pc = "check_details" /\ sy_queue = <<>> /\ sy_pc' # "check_details"
    /\ sy_successful > 0

\* The bill references of the new votes.
NewVoteBills ==
    {UpstreamVoteOf(sy_new_vote_ids[k]).vote.bill_url : k \in DOMAIN sy_new_vote_ids} \ {""}

\* The bills the index artifact holds.
IndexedBills == IF sy_bills_index.exists THEN sy_bills_index.bills_with_votes ELSE {}

\* The bills referred to by the detail files of the votes of the vote cache
\* index on disk.
BillsOfIndexedVotes ==
    {sy_vote_details[i].vote.bill_url : i \in
        {j \in DOMAIN sy_vote_details :
            /\ sy_vote_index.exists
            /\ sy_vote_details[j].vote_id \in DOMAIN sy_vote_index.cached_votes}} \ {""}

\* C36 (as stated): Conditional bills-index recompute - when the new votes
\* have been processed and none of them carries a bill reference the index
\* does not already contain, the index artifact is unchanged.
C36_RecomputeOnlyForNewBill ==
    [][(PropagatesNewVotes /\ NewVoteBills \subseteq IndexedBills)
          => sy_bills_index' = sy_bills_index]_vars

\* C36 (as the code has it): when the new votes have been processed the
\* index artifact is rewritten, with the bills of the indexed votes' detail
\* files and the time of the write, if some new vote carries a bill
\* reference, already in the index or not; otherwise it is unchanged.
C36_RecomputeForAnyBill ==
    [][PropagatesNewVotes =>
          IF NewVoteBills # {}
          THEN /\ sy_bills_index'.exists
               /\ sy_bills_index'.bills_with_votes = BillsOfIndexedVotes
               /\ sy_bills_index'.updated = sy_now
          ELSE sy_bills_index' = sy_bills_index]_vars

\* The new vote of the second run refers to the bill the index already
\* holds, and the index was rewritten at a later time.
C36_Witness ==
    /\ sy_runs = 1 /\ sy_pc = "politicians"
    /\ sy_successful > 0
    /\ NewVoteBills = {"C-1"}
    /\ sy_snapshot[5].exists /\ sy_snapshot[5].bills_with_votes = {"C-1"}
    /\ sy_bills_index.exists /\ sy_bills_index.updated > sy_snapshot[5].updated

(***************************************************************************)
(* Properties of the lock record under other invocations                    *)
(***************************************************************************)
\* C37: A holder's lock record is never removed by anyone else - while the
\* record names a process that acquired the lock and is running its mode, a
\* step that is not the holder leaving its mode (a failed acquire, the
\* destruction of another invocation's object, another release_lock) does
\* not delete or overwrite the record.
C37_HolderRecordKept ==
    [][\A p \in Procs :
          (/\ lockFile.pid = p /\ lk_holds[p]
           /\ lk_pc[p] = "run" /\ lk_pc'[p] = "run")
              => lockFile' = lockFile]_vars

(***************************************************************************)
(* SpecKeys: the file names the writers of cache/vote_details give to a    *)
(* vote, the lookup of the serving layer and the grouping of the analytics *)
(* A string is a sequence of tokens: "/" and "_" are characters, every     *)
(* other token is a run of characters without "/" and "_".                 *)
(***************************************************************************)
\* The votes: two sessions, two vote numbers (as the url spells them).
KeyVotes == {"45-1", "44-1"} \X {"1", "2"}

\* vote['url'] of the vote (session, number): /votes/<session>/<number>/
VotePathOf(v) == <<"/", "votes", "/", v[1], "/", v[2], "/">>

\* s.replace(old, new) for a one-character old.
ReplaceChar(s, old, new) == [i \in DOMAIN s |-> IF s[i] = old THEN new ELSE s[i]]

\* s.replace('/votes/', '')
RECURSIVE WithoutVotesPrefix(_)
WithoutVotesPrefix(s) ==
    IF Len(s) < 3 THEN s
    ELSE IF SubSeq(s, 1, 3) = <<"/", "votes", "/">>
         THEN WithoutVotesPrefix(SubSeq(s, 4, Len(s)))
         ELSE <<Head(s)>> \o WithoutVotesPrefix(Tail(s))

\* s.rstrip(c) and s.strip(c)
RECURSIVE RStrip(_, _)
RStrip(s, c) ==
    IF s # <<>> /\ s[Len(s)] = c THEN RStrip(SubSeq(s, 1, Len(s) - 1), c) ELSE s

RECURSIVE LStrip(_, _)
LStrip(s, c) == IF s # <<>> /\ Head(s) = c THEN LStrip(Tail(s), c) ELSE s

Strip(s, c) == LStrip(RStrip(s, c), c)

\* s.split(c): the parts between the occurrences of c, each a token or ''.
RECURSIVE Split(_, _)
Split(s, c) ==
    IF s = <<>> THEN <<"">>
    ELSE IF Head(s) = c THEN <<"">> \o Split(Tail(s), c)
    ELSE IF Len(s) = 1 THEN <<Head(s)>>
    ELSE IF s[2] = c THEN <<Head(s)>> \o Split(SubSeq(s, 3, Len(s)), c)
    ELSE Split(Tail(s), c)

\* unified_cache_update.py: vote['url'].replace('/votes/', '')
\*                              .replace('/', '_').rstrip('_')
UnifiedVoteId(vote_url) == RStrip(ReplaceChar(WithoutVotesPrefix(vote_url), "/", "_"), "_")

\* incremental_update.py: get_vote_id_from_url, then get_vote_details_filename.
get_vote_id_from_url(vote_url) ==
    ReplaceChar(Strip(ReplaceChar(WithoutVotesPrefix(vote_url), "/", "_"), "_"), "/", "_")

\* cache_historical_sessions.py, cache_missing_44_1_votes.py and app.py:
\* vote_path.replace('/', '_')
get_vote_id_from_path(vote_path) == ReplaceChar(vote_path, "/", "_")

\* app.py, the ballots route: the file name looked up for a vote url.
ServedVoteId(vote_url) ==
    LET parts == Split(Strip(WithoutVotesPrefix(vote_url), "/"), "/")
        vote_path == IF Len(parts) >= 2 THEN <<parts[1], "_", parts[2]>>
                     ELSE ReplaceChar(WithoutVotesPrefix(vote_url), "/", "")
    IN  get_vote_id_from_path(ReplaceChar(vote_path, "/", "_"))

\* get_votes_for_mp_analysis: the session it reads from a file name, None
\* when it reads none.
SessionOfFileName(vote_id) ==
    IF Len(vote_id) >= 3 /\ SubSeq(vote_id, 1, 3) = <<"_", "votes", "_">>
    THEN (IF Len(Split(vote_id, "_")) >= 3 THEN Split(vote_id, "_")[3] ELSE None)
    ELSE IF \E i \in DOMAIN vote_id : vote_id[i] = "_" THEN Split(vote_id, "_")[1]
    ELSE None

\* The files get_votes_for_mp_analysis groups under a session of its list.
AnalysedFiles(files) == {f \in files : SessionOfFileName(f) \in SeqToSet(session_priority)}

KeyFrame == UNCHANGED <<statsVars, lockVars, resumeVars, syncVars, mpVars, freshVars,
                        fetchVars, poolVars>>

KeysInit ==
    /\ StatsIdle /\ LockIdle /\ ResumeIdle /\ SyncIdle /\ MpIdle /\ FreshIdle
    /\ FetchIdle /\ PoolIdle
    /\ id_files = {}
    /\ id_found = {}

\* _cache_single_vote_details of the unified updater writes <vote_id>.json.
UnifiedWrites(v) ==
    /\ id_files' = id_files \cup {UnifiedVoteId(VotePathOf(v))}
    /\ UNCHANGED id_found
    /\ KeyFrame

\* The incremental updater writes get_vote_details_filename(vote_id).
IncrementalWrites(v) ==
    /\ id_files' = id_files \cup {get_vote_id_from_url(VotePathOf(v))}
    /\ UNCHANGED id_found
    /\ KeyFrame

\* fetch_and_cache_vote of the historical-session fetcher (a session of
\* SESSION_CONFIGS) or of the missing-vote fetcher (session 44-1) writes
\* get_cached_vote_details_filename(vote_path).
FetcherWrites(v) ==
    /\ id_files' = id_files \cup {get_vote_id_from_path(VotePathOf(v))}
    /\ UNCHANGED id_found
    /\ KeyFrame

\* The serving layer looks a vote's detail file up.
Serves(v) ==
    /\ id_found' = {ServedVoteId(VotePathOf(v))} \cap id_files
    /\ UNCHANGED id_files
    /\ KeyFrame

KeysNext ==
    \E v \in KeyVotes : UnifiedWrites(v) \/ IncrementalWrites(v) \/ FetcherWrites(v) \/ Serves(v)

SpecKeys == KeysInit /\ [][KeysNext]_vars

\* The file names under which some writer stores the vote v.
FileNamesOf(v) ==
    {UnifiedVoteId(VotePathOf(v)), get_vote_id_from_url(VotePathOf(v)),
     get_vote_id_from_path(VotePathOf(v))}

\* C38: One identifier per vote across all writers - whichever of the
\* unified updater, the incremental updater and the fetchers have written a
\* vote, the directory holds at most one detail file of it (they give it
\* the same file name), and the analytics reads at most one file per vote.
C38_OneIdentifierPerVote ==
    \A v \in KeyVotes :
        /\ Cardinality(id_files \cap FileNamesOf(v)) <= 1
        /\ Cardinality(AnalysedFiles(id_files) \cap FileNamesOf(v)) <= 1

\* What the writers agree on: the two updaters and the serving layer use
\* <session>_<number>, the fetchers _votes_<session>_<number>_; a vote has
\* at most these two files, and the analytics reads both.
TwoIdentifiersPerVote ==
    \A v \in KeyVotes :
        /\ UnifiedVoteId(VotePathOf(v)) = <<v[1], "_", v[2]>>
        /\ get_vote_id_from_url(VotePathOf(v)) = <<v[1], "_", v[2]>>
        /\ ServedVoteId(VotePathOf(v)) = <<v[1], "_", v[2]>>
        /\ get_vote_id_from_path(VotePathOf(v)) = <<"_", "votes", "_", v[1], "_", v[2], "_">>
        /\ Cardinality(id_files \cap FileNamesOf(v)) <= 2
        /\ AnalysedFiles(id_files) \cap FileNamesOf(v) = id_files \cap FileNamesOf(v)

(***************************************************************************)
(* Properties of the per-session buckets of a party-line stat record       *)
(***************************************************************************)
\* The sums of the buckets' totals and of their party-line counts.
BucketTotals(by_session) ==
    SumFn([s \in DOMAIN by_session |-> by_session[s].total], DOMAIN by_session)

BucketPartyLine(by_session) ==
    SumFn([s \in DOMAIN by_session |-> by_session[s].party_line], DOMAIN by_session)

\* party_line <= total overall and in every bucket, and the buckets add up
\* to the overall counts.
BucketsPartition(record) ==
    /\ record.party_line_votes <= record.total_eligible_votes
    /\ \A s \in DOMAIN record.party_loyalty_by_session :
           record.party_loyalty_by_session[s].party_line
               <= record.party_loyalty_by_session[s].total
    /\ BucketTotals(record.party_loyalty_by_session) = record.total_eligible_votes
    /\ BucketPartyLine(record.party_loyalty_by_session) = record.party_line_votes

\* C40: Per-session buckets partition the overall totals - in the counters
\* after every vote examined and in the record returned,
\* party_line_votes <= total_eligible_votes, every bucket has
\* party_line <= total, the buckets' totals sum to total_eligible_votes and
\* their party-line counts to party_line_votes.
C40_BucketsPartitionTotals ==
    /\ ms_idx > 0 => BucketsPartition(ms_acc)
    /\ ms_result # NoResult => BucketsPartition(ms_result)

\* A record over two eligible votes of two sessions, one with the party and
\* one against it.
C40_Witness ==
    /\ ms_result # NoResult
    /\ ms_result.total_eligible_votes = 2 /\ ms_result.party_line_votes = 1
    /\ DOMAIN ms_result.party_loyalty_by_session = {"45-1", "44-1"}
====
